---- MODULE Spec2Model ----
(***************************************************************************)
(* PyMotors: the TicStage motion-range controller (pymotors/tic_stage.py)  *)
(* on top of TicStepper / StepperBase (pymotors/tic_stepper.py,            *)
(* pymotors/stepper_base.py), together with the Tic board it commands.     *)
(*                                                                         *)
(* The host is one thread.  The board moves its motor on its own, so its   *)
(* steps interleave with the host's transport operations: a handler that   *)
(* reads the position more than once, or polls, is cut at those reads.     *)
(*                                                                         *)
(* tic_stage.py calls the base-class moves as _moveAbsSteps/_moveRelSteps  *)
(* and the position query as getPosition; stepper_base.py holds them under *)
(* the names moveAbsSteps, moveRelSteps and position.                      *)
(***************************************************************************)
EXTENDS Integers, Sequences, FiniteSets, TLC

\* ------------------------------------------------------------ constants
\* tic_stage.py
SOFTLIMIT_BUFFER_STEPS == 20
DEF_HOME_SPD_STEPS_PER_SEC == 50
DEF_MAX_SPD_STEPS_PER_SEC == 500
MAX_ALLOWABLE_TOLERANCE == 5
MOTION_TOL_STEPS == 3
\* TicStepper._setSpeed: the board takes speeds in steps per 10000 s
SPEED_SCALE == 10000

\* TicStepper.__init__: input_steps_per_rev, input_dist_per_rev; and
\* StepperBase.__init__: microsteps_per_full_step
STEPS_PER_REV == 200
DIST_PER_REV == 1
MICROSTEPS_PER_FULL_STEP == 1

NUM_PREV_TO_KEEP == 10

\* ------------------------------------------------------------ bounds
\* The moving motor is sampled on a grid of Stride steps (one soft buffer),
\* and at its goal.  All lengths of the model are whole strides.
Stride == SOFTLIMIT_BUFFER_STEPS
\* Travel between the two switches, in strides.
TravelStrides == 2
\* The time budget handed to moveToLimit, in polls.
MaxTimeout == 1

\* the widest allowed range of the range checks, upper less lower bound
MaxSpan == 3
\* by how much the shortest travel falls short of two buffers
ShortBy == 1

\* the stall timeout handed to wait_for_motion, in polls
MaxStallPolls == 1
\* by how much the farthest target lies outside the window of the stall check
FarBy == 1

\* how far from 0 the targets and positions of the base-class moves go
StepperReach == 3

Travel == TravelStrides * Stride
\* The motor powers up one stride in front of the reverse switch.
RevOffset == Stride
\* No commanded target leaves -MaxPos..MaxPos.
MaxPos == 2 * Travel + RevOffset

\* Where the reverse and the forward switch are, seen from the power-up position.
Layouts == {<<0 - RevOffset, Travel - RevOffset>>}
\* Whether the board has its forward and its reverse switch configured.
Configs == {<<TRUE, TRUE>>}
\* The step budget handed to moveToLimit covers the travel.
MaxStepsSet == {Travel}
TimeoutSet == {MaxTimeout}
\* The ends of the allowed range after homing, and one stride outside.
AbsTargets == {SOFTLIMIT_BUFFER_STEPS - Stride, SOFTLIMIT_BUFFER_STEPS,
               Travel - SOFTLIMIT_BUFFER_STEPS,
               Travel - SOFTLIMIT_BUFFER_STEPS + Stride}
RelSteps == {0 - Stride, Stride}
Keys == {1}
IndexVals == {SOFTLIMIT_BUFFER_STEPS}

\* ------------------------------------------------------------ numbers
\* Python numbers that may be float('inf'), -float('inf') or float('nan').
Fin(n) == [inf |-> 0, nan |-> FALSE, v |-> n]
PosInf == [inf |-> 1, nan |-> FALSE, v |-> 0]
NegInf == [inf |-> -1, nan |-> FALSE, v |-> 0]
NaN == [inf |-> 0, nan |-> TRUE, v |-> 0]

IsFin(a) == a.inf = 0 /\ ~a.nan

XNeg(a) == [inf |-> 0 - a.inf, nan |-> a.nan, v |-> 0 - a.v]

XAdd(a, b) ==
  IF a.nan \/ b.nan THEN NaN
  ELSE IF a.inf # 0 /\ b.inf # 0 THEN (IF a.inf = b.inf THEN a ELSE NaN)
  ELSE IF a.inf # 0 THEN a
  ELSE IF b.inf # 0 THEN b
  ELSE Fin(a.v + b.v)

XSub(a, b) == XAdd(a, XNeg(b))

\* a <= b; every comparison with nan is false
XLeq(a, b) ==
  IF a.nan \/ b.nan THEN FALSE
  ELSE IF a.inf # 0 \/ b.inf # 0 THEN a.inf <= b.inf
  ELSE a.v <= b.v

Abs(n) == IF n < 0 THEN 0 - n ELSE n

\* ------------------------------------------------------------ state
VARIABLES
  \* the TicStage object
  enable,                   \* StepperBase._enable
  target_steps,             \* StepperBase._target_steps
  is_motion_range_known,    \* TicStage._is_motion_range_known
  allowed_motion_range,     \* TicStage._allowed_motion_range, <<lower, upper>>
  fwd_lim_sw_position_tic,  \* TicStage._fwd_lim_sw_position_tic
  rev_lim_sw_position_tic,  \* TicStage._rev_lim_sw_position_tic
  index_positions,          \* TicStage._index_positions
  fwd_sw_present,           \* TicStage._fwd_sw_present
  rev_sw_present,           \* TicStage._rev_sw_present
  \* the call in progress, or the last one
  pc,                       \* where the host is: "idle" between calls, "done" as a call returns
  call,                     \* the API call: its name and arguments
  ret,                      \* "True", "False", "None", "raised"; "running" inside a call
  wire,                     \* the commands the call has handed to the transport
  rd,                       \* whether the call has issued a block read
  loc,                      \* the locals of moveToLimit and discoverMotionRange
  \* the board
  tic

host == <<enable, target_steps, is_motion_range_known, allowed_motion_range,
          fwd_lim_sw_position_tic, rev_lim_sw_position_tic, index_positions,
          fwd_sw_present, rev_sw_present>>
frame == <<pc, call, ret, wire, rd, loc>>
vars == <<host, frame, tic>>

\* ------------------------------------------------------------ the board
\* TicStepper._command_dict: a written command, with its data
Cmd(name, data) == [cmd |-> name, data |-> data]
Quick(name) == Cmd(name, 0)

\* The motor runs when it is energized and safe start has been left.
Running(t) == t.energized /\ ~t.safe_start

\* misc_flags1, bits 2 and 3 (_misc_bit_dict): a limit switch is pressed
FwdLimitActive(t) == t.cfg_fwd /\ t.pos >= t.sw_fwd
RevLimitActive(t) == t.cfg_rev /\ t.pos <= t.sw_rev

\* The effect of one command on the board.  A board that stops planning
\* (mode "off") has no target: the field then holds the position.
DevCmd(t, c) ==
  CASE c.cmd = "energize"       -> [t EXCEPT !.energized = TRUE]
    [] c.cmd = "exitSafeStart"  -> [t EXCEPT !.safe_start = FALSE]
    [] c.cmd = "enterSafeStart" -> [t EXCEPT !.safe_start = TRUE, !.mode = "off", !.target = t.pos]
    [] c.cmd = "deenergize"     -> [t EXCEPT !.energized = FALSE, !.mode = "off", !.target = t.pos]
    [] c.cmd = "sTargetPosition" ->
         IF Running(t) THEN [t EXCEPT !.mode = "pos", !.target = c.data] ELSE t
    [] c.cmd = "haltAndSetPosition" ->
         [t EXCEPT !.pos = c.data, !.target = c.data, !.mode = "off",
                   !.sw_rev = IF t.cfg_rev THEN t.sw_rev + (c.data - t.pos) ELSE t.sw_rev,
                   !.sw_fwd = IF t.cfg_fwd THEN t.sw_fwd + (c.data - t.pos) ELSE t.sw_fwd]
    [] c.cmd = "goHome" ->
         IF Running(t) /\ c.data = 0 /\ t.cfg_rev THEN [t EXCEPT !.mode = "home_rev"]
         ELSE IF Running(t) /\ c.data = 1 /\ t.cfg_fwd THEN [t EXCEPT !.mode = "home_fwd"]
         ELSE t
    [] OTHER -> t

\* Where the motor is heading: its target, or the switch that stops it first.
Goal(t) ==
  CASE t.mode = "home_rev" -> t.sw_rev
    [] t.mode = "home_fwd" -> t.sw_fwd
    [] t.mode = "pos" /\ t.target > t.pos /\ t.cfg_fwd /\ t.target > t.sw_fwd ->
         (IF t.pos > t.sw_fwd THEN t.pos ELSE t.sw_fwd)
    [] t.mode = "pos" /\ t.target < t.pos /\ t.cfg_rev /\ t.target < t.sw_rev ->
         (IF t.pos < t.sw_rev THEN t.pos ELSE t.sw_rev)
    [] t.mode = "pos" -> t.target
    [] OTHER -> t.pos

\* The positions the motor may be seen at next on its way from p to g.
Stops(p, g) ==
  {q \in (IF p < g THEN (p + 1)..g ELSE g..(p - 1)) : q = g \/ q % Stride = 0}

\* The motor advances towards its goal.
DeviceStep ==
  /\ pc # "done"
  /\ Running(tic) /\ tic.mode # "off" /\ tic.pos # Goal(tic)
  /\ \E q \in Stops(tic.pos, Goal(tic)) : tic' = [tic EXCEPT !.pos = q]
  /\ UNCHANGED <<host, frame>>

\* The board is homing in reverse and its motor stands on the reverse switch.
HomingAtSwitch(t) == Running(t) /\ t.mode = "home_rev" /\ t.pos = t.sw_rev

\* Homing in reverse ends on the reverse switch, where the board sets its
\* position to 0 (tic_stage.py: "Home the TicStepper, as this will set its
\* current position to 0").
DeviceHomed ==
  /\ pc # "done"
  /\ HomingAtSwitch(tic)
  /\ tic' = [tic EXCEPT !.pos = 0, !.target = 0, !.mode = "pos",
                        !.sw_rev = 0, !.sw_fwd = tic.sw_fwd - tic.sw_rev]
  /\ UNCHANGED <<host, frame>>

\* The board after a sequence of commands.
RECURSIVE ApplyCmds(_, _)
ApplyCmds(t, cs) ==
  IF cs = <<>> THEN t ELSE ApplyCmds(DevCmd(t, Head(cs)), Tail(cs))

\* gSetting limit_switch_fwd / limit_switch_rev: the one byte read back
SettingReply(t, direction) ==
  IF direction = "fwd" THEN <<IF t.cfg_fwd THEN 1 ELSE 0>>
  ELSE <<IF t.cfg_rev THEN 1 ELSE 0>>

\* ------------------------------------------------------------ TicStepper
\* Python's == between the byte list that send() returns and an int: never equal.
ListEqualsInt(reply, n) == FALSE

\* TicStepper.checkLimitSwitch, given the reply of the setting read
checkLimitSwitch(reply) == IF ListEqualsInt(reply, 0) THEN FALSE ELSE TRUE

\* Of the commands cs handed to com.send one after the other, f reach the
\* board and the next one, if any, raises.
Reached(cs, f) == SubSeq(cs, 1, f)
Handed(cs, f) == SubSeq(cs, 1, IF f < Len(cs) THEN f + 1 ELSE Len(cs))

\* TicStepper._command_dict: the command offset, the byte that starts the
\* command on the transport
CommandOffset(name) ==
  CASE name = "sTargetPosition" -> \hE0
    [] name = "haltAndSetPosition" -> \hEC
    [] name = "goHome"          -> \h97
    [] name = "deenergize"      -> \h86
    [] name = "energize"        -> \h85
    [] name = "exitSafeStart"   -> \h83
    [] name = "enterSafeStart"  -> \h8F
    [] name = "sMaxSpeed"       -> \hE6

\* The offsets of a sequence of commands, in the order they were handed over.
Offsets(cs) == [i \in 1..Len(cs) |-> CommandOffset(cs[i].cmd)]

\* An enable setter that sends its two commands in the other order.
EnableCmdsSwapped(state) ==
  IF state THEN <<Quick("exitSafeStart"), Quick("energize")>>
  ELSE <<Quick("deenergize"), Quick("enterSafeStart")>>

\* TicStepper.enable (setter): the flag first, then the two commands
EnableCmds(state) ==
  IF state THEN <<Quick("energize"), Quick("exitSafeStart")>>
  ELSE <<Quick("enterSafeStart"), Quick("deenergize")>>

\* ------------------------------------------------------------ TicStage
Range(lo, hi) == <<lo, hi>>
ZeroRange == Range(Fin(0), Fin(0))

\* isTargetValid with the comparisons of the earlier TicStage (TicStage.py):
\* both bounds excluded.
isTargetValidStrict(target_pos) ==
  IF ~is_motion_range_known THEN FALSE
  ELSE /\ ~XLeq(Fin(target_pos), allowed_motion_range[1])
       /\ ~XLeq(allowed_motion_range[2], Fin(target_pos))

\* isTargetValid without the test of _is_motion_range_known.
isTargetValidUnguarded(target_pos) ==
  /\ XLeq(allowed_motion_range[1], Fin(target_pos))
  /\ XLeq(Fin(target_pos), allowed_motion_range[2])

\* TicStage.isTargetValid
isTargetValid(target_pos) ==
  IF ~is_motion_range_known THEN FALSE
  ELSE /\ XLeq(allowed_motion_range[1], Fin(target_pos))
       /\ XLeq(Fin(target_pos), allowed_motion_range[2])

\* TicStage._updateAllowedMotionRange, as the new value of the range
updateAllowedMotionRange(known, rev_lim, fwd_lim) ==
  IF known
  THEN Range(XAdd(rev_lim, Fin(SOFTLIMIT_BUFFER_STEPS)),
             XSub(fwd_lim, Fin(SOFTLIMIT_BUFFER_STEPS)))
  ELSE ZeroRange

\* The locals of moveToLimit and discoverMotionRange before they are set;
\* ctx tells which of the two was called, err that a transport operation of
\* the call has raised.
NoLoc == [limit |-> "none", ctx |-> "none", max_steps |-> 0, timeout_s |-> 0,
          initial_position |-> 0, current_position |-> 0, elapsed_time |-> 0,
          limit_active |-> FALSE, err |-> FALSE,
          fwd_pos |-> NaN, rev_pos |-> NaN]

InBounds(t) == Abs(t) <= MaxPos

Call(op, arg, wait, open) == [op |-> op, arg |-> arg, wait |-> wait, open |-> open]
NoCall == Call("none", 0, FALSE, FALSE)

\* A call begins.
Begin(c) == pc = "idle" /\ call' = c

\* A call ends with result r: "True", "False", "None", or "raised" for an exception.
Return(r) == pc' = "done" /\ ret' = r

\* The caller has the result; the frame of the call is gone.
CallReturns ==
  /\ pc = "done"
  /\ pc' = "idle" /\ call' = NoCall /\ ret' = "None"
  /\ wire' = <<>> /\ rd' = FALSE /\ loc' = NoLoc
  /\ UNCHANGED <<host, tic>>

stage == <<is_motion_range_known, allowed_motion_range, fwd_lim_sw_position_tic,
           rev_lim_sw_position_tic, index_positions, fwd_sw_present, rev_sw_present>>

\* TicStepper.enable = state.  The flag is set before the two commands are
\* written; f of them reach the board before the transport fails (2: none fails).
SetEnable(state) ==
  /\ Begin(Call("enable", 0, FALSE, state))
  /\ \E f \in 0..2 :
       /\ enable' = state
       /\ wire' = Handed(EnableCmds(state), f)
       /\ tic' = ApplyCmds(tic, Reached(EnableCmds(state), f))
       /\ Return(IF f = 2 THEN "None" ELSE "raised")
  /\ rd' = FALSE /\ loc' = NoLoc
  /\ UNCHANGED <<target_steps, stage>>

\* A disable that clears the flag and keeps the range.
disableKeepsRange ==
  /\ Begin(Call("disable", 0, FALSE, FALSE))
  /\ is_motion_range_known' = FALSE
  /\ allowed_motion_range' = allowed_motion_range
  /\ \E f \in 0..2 :
       /\ enable' = FALSE
       /\ wire' = Handed(EnableCmds(FALSE), f)
       /\ tic' = ApplyCmds(tic, Reached(EnableCmds(FALSE), f))
       /\ Return(IF f = 2 THEN "True" ELSE "False")
  /\ rd' = FALSE /\ loc' = NoLoc
  /\ UNCHANGED <<target_steps, fwd_lim_sw_position_tic, rev_lim_sw_position_tic,
                 index_positions, fwd_sw_present, rev_sw_present>>

\* A disable in the order of the older TicStage.py: the motor is disabled
\* first, unguarded, and the range is cleared after it, so that a write that
\* raises leaves the range as it was.
disableWriteFirst ==
  /\ Begin(Call("disable", 0, FALSE, FALSE))
  /\ \E f \in 0..2 :
       /\ enable' = FALSE
       /\ wire' = Handed(EnableCmds(FALSE), f)
       /\ tic' = ApplyCmds(tic, Reached(EnableCmds(FALSE), f))
       /\ IF f = 2
          THEN /\ is_motion_range_known' = FALSE
               /\ allowed_motion_range' = ZeroRange
               /\ Return("True")
          ELSE /\ UNCHANGED <<is_motion_range_known, allowed_motion_range>>
               /\ Return("raised")
  /\ rd' = FALSE /\ loc' = NoLoc
  /\ UNCHANGED <<target_steps, fwd_lim_sw_position_tic, rev_lim_sw_position_tic,
                 index_positions, fwd_sw_present, rev_sw_present>>

\* TicStage.disable
disable ==
  /\ Begin(Call("disable", 0, FALSE, FALSE))
  /\ is_motion_range_known' = FALSE
  /\ allowed_motion_range' = ZeroRange
  /\ \E f \in 0..2 :
       /\ enable' = FALSE
       /\ wire' = Handed(EnableCmds(FALSE), f)
       /\ tic' = ApplyCmds(tic, Reached(EnableCmds(FALSE), f))
       /\ Return(IF f = 2 THEN "True" ELSE "False")
  /\ rd' = FALSE /\ loc' = NoLoc
  /\ UNCHANGED <<target_steps, fwd_lim_sw_position_tic, rev_lim_sw_position_tic,
                 index_positions, fwd_sw_present, rev_sw_present>>

\* StepperBase.moveAbsSteps(t) with TicStepper._moveToTarget, then what the
\* stage's move does next: wait for the motion, or return True.  w is what the
\* call has handed to the transport so far.
BaseMoveAbs(t, wait, w) ==
  IF ~enable
  THEN /\ UNCHANGED <<target_steps, tic>>
       /\ wire' = w
       /\ IF wait THEN pc' = "wfm" /\ ret' = "running" ELSE Return("True")
  ELSE /\ InBounds(t)
       /\ target_steps' = t
       /\ \E ok \in BOOLEAN :
            /\ wire' = Append(w, Cmd("sTargetPosition", t))
            /\ IF ok
               THEN /\ tic' = DevCmd(tic, Cmd("sTargetPosition", t))
                    /\ IF wait THEN pc' = "wfm" /\ ret' = "running" ELSE Return("True")
               ELSE tic' = tic /\ Return("raised")

\* A move that lets allow_open_loop override the validation.
StageMoveAbsOpenOverrides(position_steps, wait, open, refused) ==
  IF open \/ (is_motion_range_known /\ isTargetValid(position_steps))
  THEN BaseMoveAbs(position_steps, wait, <<>>)
  ELSE UNCHANGED <<target_steps, tic>> /\ wire' = <<>> /\ Return(refused)

\* A move that takes an enabled motor for the permission to move open loop.
StageMoveAbsOpenWhenEnabled(position_steps, wait, open, refused) ==
  IF is_motion_range_known
  THEN IF isTargetValid(position_steps)
       THEN BaseMoveAbs(position_steps, wait, <<>>)
       ELSE UNCHANGED <<target_steps, tic>> /\ wire' = <<>> /\ Return(refused)
  ELSE IF open \/ enable
       THEN BaseMoveAbs(position_steps, wait, <<>>)
       ELSE UNCHANGED <<target_steps, tic>> /\ wire' = <<>> /\ Return(refused)

\* The body of TicStage.moveAbsSteps; refused is what the caller returns when
\* the move is refused.
StageMoveAbs(position_steps, wait, open, refused) ==
  IF is_motion_range_known
  THEN IF isTargetValid(position_steps)
       THEN BaseMoveAbs(position_steps, wait, <<>>)
       ELSE UNCHANGED <<target_steps, tic>> /\ wire' = <<>> /\ Return(refused)
  ELSE IF open
       THEN BaseMoveAbs(position_steps, wait, <<>>)
       ELSE UNCHANGED <<target_steps, tic>> /\ wire' = <<>> /\ Return(refused)

\* TicStage.moveAbsSteps
moveAbsSteps(position_steps, wait, open) ==
  /\ Begin(Call("moveAbsSteps", position_steps, wait, open))
  /\ StageMoveAbs(position_steps, wait, open, "False")
  /\ rd' = FALSE /\ loc' = NoLoc
  /\ UNCHANGED <<enable, stage>>

\* TicStage.moveToIndexedPosition: the result of moveAbsSteps is dropped
moveToIndexedPosition(index, wait, open) ==
  /\ Begin(Call("moveToIndexedPosition", index, wait, open))
  /\ IF index \in DOMAIN index_positions
     THEN StageMoveAbs(index_positions[index], wait, open, "True")
     ELSE UNCHANGED <<target_steps, tic>> /\ wire' = <<>> /\ Return("False")
  /\ rd' = FALSE /\ loc' = NoLoc
  /\ UNCHANGED <<enable, stage>>

\* TicStage.moveRelSteps up to the call of the base class's relative move.
\* With the range known the position is read here to validate the move, and
\* read again by the base class to compute the target.
moveRelSteps(steps, wait, open) ==
  /\ Begin(Call("moveRelSteps", steps, wait, open))
  /\ loc' = NoLoc
  /\ IF is_motion_range_known
     THEN /\ rd' = TRUE
          /\ UNCHANGED <<target_steps, tic>> /\ wire' = <<>>
          /\ \E ok \in BOOLEAN :
               IF ~ok THEN Return("raised")
               ELSE IF isTargetValid(steps + tic.pos)
                    THEN pc' = "rel_cmd" /\ ret' = "running"
                    ELSE Return("False")
     ELSE IF open
          THEN /\ rd' = TRUE
               /\ \E ok \in BOOLEAN :
                    IF ~ok
                    THEN UNCHANGED <<target_steps, tic>> /\ wire' = <<>> /\ Return("raised")
                    ELSE BaseMoveAbs(tic.pos + steps, wait, <<>>)
          ELSE /\ rd' = FALSE
               /\ UNCHANGED <<target_steps, tic>> /\ wire' = <<>> /\ Return("False")
  /\ UNCHANGED <<enable, stage>>

\* StepperBase.moveRelSteps inside a validated TicStage.moveRelSteps: the
\* position is read again and the target computed from it.
RelCommand ==
  /\ pc = "rel_cmd"
  /\ \E ok \in BOOLEAN :
       IF ~ok
       THEN UNCHANGED <<target_steps, tic, wire>> /\ Return("raised")
       ELSE BaseMoveAbs(tic.pos + call.arg, call.wait, wire)
  /\ UNCHANGED <<enable, stage, call, rd, loc>>

\* One poll of TicStage.wait_for_motion.  The stall timer runs on wall-clock
\* time: inside the window tolerance < distance < _MAX_ALLOWABLE_TOLERANCE the
\* poll may find it expired.
WaitPoll ==
  /\ pc = "wfm"
  /\ rd' = TRUE
  /\ LET d == Abs(tic.pos - target_steps) IN
       \/ Return("raised")
       \/ d <= MOTION_TOL_STEPS /\ Return("True")
       \/ MOTION_TOL_STEPS < d /\ d < MAX_ALLOWABLE_TOLERANCE /\ Return("raised")
       \/ d > MOTION_TOL_STEPS /\ UNCHANGED <<pc, ret>>
  /\ UNCHANGED <<host, call, wire, loc, tic>>

\* dict.update
Merge(a, b) ==
  [k \in (DOMAIN a) \cup (DOMAIN b) |-> IF k \in DOMAIN b THEN b[k] ELSE a[k]]

\* setIndexedPositions storing each valid entry as it goes: an invalid value
\* fails the call but the valid entries are kept.
setIndexedPositionsEntryWise(position_map) ==
  /\ Begin(Call("setIndexedPositions", position_map, FALSE, FALSE))
  /\ IF is_motion_range_known /\ \E k \in DOMAIN position_map : ~isTargetValid(position_map[k])
     THEN /\ index_positions' =
               Merge(index_positions,
                     [k \in {j \in DOMAIN position_map : isTargetValid(position_map[j])}
                        |-> position_map[k]])
          /\ Return("False")
     ELSE index_positions' = Merge(index_positions, position_map) /\ Return("True")
  /\ wire' = <<>> /\ rd' = FALSE /\ loc' = NoLoc
  /\ UNCHANGED <<enable, target_steps, is_motion_range_known, allowed_motion_range,
                 fwd_lim_sw_position_tic, rev_lim_sw_position_tic,
                 fwd_sw_present, rev_sw_present, tic>>

\* TicStage.setIndexedPositions
setIndexedPositions(position_map) ==
  /\ Begin(Call("setIndexedPositions", position_map, FALSE, FALSE))
  /\ IF is_motion_range_known /\ \E k \in DOMAIN position_map : ~isTargetValid(position_map[k])
     THEN UNCHANGED index_positions /\ Return("False")
     ELSE index_positions' = Merge(index_positions, position_map) /\ Return("True")
  /\ wire' = <<>> /\ rd' = FALSE /\ loc' = NoLoc
  /\ UNCHANGED <<enable, target_steps, is_motion_range_known, allowed_motion_range,
                 fwd_lim_sw_position_tic, rev_lim_sw_position_tic,
                 fwd_sw_present, rev_sw_present, tic>>

\* TicStage.isTargetValid as an API call.  Positions are step counts, Python
\* ints, which int() returns as they are.
isTargetValidCall(target_pos) ==
  /\ Begin(Call("isTargetValid", target_pos, FALSE, FALSE))
  /\ Return(IF isTargetValid(target_pos) THEN "True" ELSE "False")
  /\ wire' = <<>> /\ rd' = FALSE /\ loc' = NoLoc
  /\ UNCHANGED <<host, tic>>

\* TicStage.isLimitActive on a status that was read
isLimitActive(limit) ==
  IF limit = "fwd" THEN FwdLimitActive(tic)
  ELSE IF limit = "rev" THEN RevLimitActive(tic)
  ELSE FALSE

\* The value TicStage.moveToLimit returns once its poll loop has ended
moveToLimitResult(limit_active) == TRUE

\* The speed TicStage.setRotationSpeed hands to TicStepper._setSpeed for
\* homing, as the data of the sMaxSpeed command (microstep factor 1)
HomingSpeedData == DEF_HOME_SPD_STEPS_PER_SEC * SPEED_SCALE

\* An exception leaves moveToLimit with the board as t, the commands w handed
\* over and the target tgt.  A direct call lets it through; discoverMotionRange
\* catches it, sets enable = False (which writes, and may raise again) and
\* returns False.
MtlRaise(w, t, tgt) ==
  /\ target_steps' = tgt
  /\ loc' = [loc EXCEPT !.err = TRUE]
  /\ IF loc.ctx = "disc"
     THEN /\ enable' = FALSE
          /\ \E f \in 0..2 :
               /\ wire' = w \o Handed(EnableCmds(FALSE), f)
               /\ tic' = ApplyCmds(t, Reached(EnableCmds(FALSE), f))
               /\ Return(IF f = 2 THEN "False" ELSE "raised")
     ELSE /\ enable' = enable /\ wire' = w /\ tic' = t /\ Return("raised")

\* TicStage.moveToLimit, called directly: the checks before the first sleep
moveToLimit(limit, max_steps, timeout_s) ==
  /\ Begin(Call("moveToLimit", limit, FALSE, FALSE))
  /\ wire' = <<>> /\ rd' = FALSE
  /\ IF ~enable \/ (limit = "fwd" /\ ~fwd_sw_present) \/ (limit = "rev" /\ ~rev_sw_present)
     THEN loc' = NoLoc /\ Return("False")
     ELSE /\ loc' = [NoLoc EXCEPT !.limit = limit, !.ctx = "api",
                                  !.max_steps = max_steps, !.timeout_s = timeout_s]
          /\ pc' = "mtl_sleep" /\ ret' = "running"
  /\ UNCHANGED <<host, tic>>

\* moveToLimit after the sleep: the homing speed is set (a failure of that
\* write is swallowed by setRotationSpeed), the initial position is read and
\* the relative move of +-max_steps is commanded.
MtlBegin ==
  /\ pc = "mtl_sleep"
  /\ rd' = TRUE
  /\ LET target_pos == IF loc.limit = "fwd" THEN Abs(loc.max_steps) ELSE 0 - Abs(loc.max_steps)
         t == tic.pos + target_pos
         w == Append(wire, Cmd("sMaxSpeed", HomingSpeedData))
     IN     \* a position read fails
            \/ MtlRaise(w, tic, target_steps)
            \* the target write fails
            \/ /\ enable /\ InBounds(t)
               /\ MtlRaise(Append(w, Cmd("sTargetPosition", t)), tic, t)
            \* the move is commanded
            \/ /\ InBounds(t)
               /\ enable' = enable
               /\ target_steps' = IF enable THEN t ELSE target_steps
               /\ wire' = IF enable THEN Append(w, Cmd("sTargetPosition", t)) ELSE w
               /\ tic' = IF enable THEN DevCmd(tic, Cmd("sTargetPosition", t)) ELSE tic
               /\ loc' = [loc EXCEPT !.initial_position = tic.pos,
                                     !.current_position = tic.pos,
                                     !.elapsed_time = 0, !.limit_active = FALSE]
               /\ pc' = "mtl_poll" /\ ret' = "running"
  /\ UNCHANGED <<stage, call>>

\* Where discoverMotionRange goes on after its forward part: to the reverse
\* limit if there is a reverse switch, else to the homing command.
DiscReversePart(l) ==
  IF rev_sw_present
  THEN pc' = "mtl_sleep" /\ loc' = [l EXCEPT !.limit = "rev"]
  ELSE pc' = "disc_home" /\ loc' = [l EXCEPT !.limit = "none", !.rev_pos = NegInf]

\* A poll loop whose clock stands still: elapsed_time stays what it was.
MtlPollStoppedClock ==
  /\ pc = "mtl_poll"
  /\ IF /\ loc.elapsed_time < loc.timeout_s
        /\ Abs(loc.current_position - loc.initial_position) < Abs(loc.max_steps)
        /\ ~loc.limit_active
     THEN \* the position read fails, or the status read does
          \/ MtlRaise(wire, tic, target_steps)
          \/ /\ loc' = [loc EXCEPT !.current_position = tic.pos,
                                   !.elapsed_time = loc.elapsed_time,
                                   !.limit_active = isLimitActive(loc.limit)]
             /\ UNCHANGED <<enable, target_steps, wire, tic, pc, ret>>
     ELSE /\ UNCHANGED <<enable, target_steps, wire, tic>>
          /\ loc' = [loc EXCEPT !.initial_position = 0, !.current_position = 0,
                                !.elapsed_time = 0]
          /\ IF loc.ctx = "api"
             THEN Return(IF moveToLimitResult(loc.limit_active) THEN "True" ELSE "False")
             ELSE IF loc.limit = "fwd"
             THEN pc' = "disc_fwd_pos" /\ ret' = "running"
             ELSE IF ~moveToLimitResult(loc.limit_active)
             THEN Return("False")
             ELSE pc' = "disc_rev_pos" /\ ret' = "running"
  /\ UNCHANGED <<stage, call, rd>>

\* The poll loop of moveToLimit: one pass, or the return when its condition
\* no longer holds (the loop's own locals are dead from there on).
MtlPoll ==
  /\ pc = "mtl_poll"
  /\ IF /\ loc.elapsed_time < loc.timeout_s
        /\ Abs(loc.current_position - loc.initial_position) < Abs(loc.max_steps)
        /\ ~loc.limit_active
     THEN \* the position read fails, or the status read does
          \/ MtlRaise(wire, tic, target_steps)
          \/ /\ loc' = [loc EXCEPT !.current_position = tic.pos,
                                   !.elapsed_time = loc.elapsed_time + 1,
                                   !.limit_active = isLimitActive(loc.limit)]
             /\ UNCHANGED <<enable, target_steps, wire, tic, pc, ret>>
     ELSE /\ UNCHANGED <<enable, target_steps, wire, tic>>
          /\ loc' = [loc EXCEPT !.initial_position = 0, !.current_position = 0,
                                !.elapsed_time = 0]
          /\ IF loc.ctx = "api"
             THEN Return(IF moveToLimitResult(loc.limit_active) THEN "True" ELSE "False")
             ELSE IF loc.limit = "fwd"
             THEN pc' = "disc_fwd_pos" /\ ret' = "running"
             ELSE IF ~moveToLimitResult(loc.limit_active)
             THEN Return("False")
             ELSE pc' = "disc_rev_pos" /\ ret' = "running"
  /\ UNCHANGED <<stage, call, rd>>

\* TicStage.discoverMotionRange: the checks, and the entry into the first
\* moveToLimit (whose own checks pass: the motor is enabled, the switch there)
discoverMotionRange(max_steps, timeout_s) ==
  /\ Begin(Call("discoverMotionRange", 0, FALSE, FALSE))
  /\ wire' = <<>> /\ rd' = FALSE
  /\ IF ~enable \/ (~fwd_sw_present /\ ~rev_sw_present)
     THEN loc' = NoLoc /\ Return("False")
     ELSE /\ ret' = "running"
          /\ LET l == [NoLoc EXCEPT !.ctx = "disc", !.max_steps = max_steps,
                                    !.timeout_s = timeout_s]
             IN IF fwd_sw_present
                THEN pc' = "mtl_sleep" /\ loc' = [l EXCEPT !.limit = "fwd"]
                ELSE DiscReversePart([l EXCEPT !.fwd_pos = PosInf])
  /\ UNCHANGED <<host, tic>>

\* fwd_pos = self.getCurrentPositionSteps(), outside any try
DiscFwdPos ==
  /\ pc = "disc_fwd_pos"
  /\ \E ok \in BOOLEAN :
       IF ~ok THEN loc' = [loc EXCEPT !.err = TRUE] /\ Return("raised")
       ELSE ret' = ret /\ DiscReversePart([loc EXCEPT !.fwd_pos = Fin(tic.pos)])
  /\ UNCHANGED <<host, call, wire, rd, tic>>

\* rev_pos = self.getCurrentPositionSteps(), outside any try
DiscRevPos ==
  /\ pc = "disc_rev_pos"
  /\ \E ok \in BOOLEAN :
       IF ~ok THEN loc' = [loc EXCEPT !.err = TRUE] /\ Return("raised")
       ELSE ret' = ret /\ pc' = "disc_home" /\ loc' = [loc EXCEPT !.rev_pos = Fin(tic.pos)]
  /\ UNCHANGED <<host, call, wire, rd, tic>>

\* TicStepper.home(direc): the switch is checked by a setting read, then
\* goHome is written.
HomeCmds(direc) ==
  IF checkLimitSwitch(SettingReply(tic, direc))
  THEN <<Cmd("goHome", IF direc = "fwd" THEN 1 ELSE 0)>>
  ELSE <<>>

\* self.home('rev') in discoverMotionRange, outside any try
DiscHome ==
  /\ pc = "disc_home"
  /\ \/ \* the setting read fails
        /\ UNCHANGED <<wire, tic>>
        /\ loc' = [loc EXCEPT !.err = TRUE] /\ Return("raised")
     \/ \* the goHome write fails
        /\ HomeCmds("rev") # <<>>
        /\ wire' = wire \o HomeCmds("rev") /\ tic' = tic
        /\ loc' = [loc EXCEPT !.err = TRUE] /\ Return("raised")
     \/ /\ wire' = wire \o HomeCmds("rev")
        /\ tic' = ApplyCmds(tic, HomeCmds("rev"))
        /\ loc' = loc /\ pc' = "disc_settle" /\ ret' = ret
  /\ UNCHANGED <<host, call, rd>>

\* A finish that keeps the limits as they were measured, as the older
\* TicStage.py does, instead of re-zeroing them.
DiscFinishAbsolute ==
  /\ pc = "disc_settle"
  /\ ~HomingAtSwitch(tic)
  /\ rev_lim_sw_position_tic' = loc.rev_pos
  /\ fwd_lim_sw_position_tic' = loc.fwd_pos
  /\ is_motion_range_known' = TRUE
  /\ allowed_motion_range' = updateAllowedMotionRange(TRUE, loc.rev_pos, loc.fwd_pos)
  /\ Return("True")
  /\ UNCHANGED <<enable, target_steps, index_positions, fwd_sw_present, rev_sw_present,
                 call, wire, rd, loc, tic>>

\* After the settle delay (which a board that homes with its motor already
\* on the switch needs to zero its position): the limits are re-zeroed and
\* the range is known.
DiscFinish ==
  /\ pc = "disc_settle"
  /\ ~HomingAtSwitch(tic)
  /\ rev_lim_sw_position_tic' = Fin(0)
  /\ fwd_lim_sw_position_tic' = XSub(loc.fwd_pos, loc.rev_pos)
  /\ is_motion_range_known' = TRUE
  /\ allowed_motion_range' =
       updateAllowedMotionRange(TRUE, Fin(0), XSub(loc.fwd_pos, loc.rev_pos))
  /\ Return("True")
  /\ UNCHANGED <<enable, target_steps, index_positions, fwd_sw_present, rev_sw_present,
                 call, wire, rd, loc, tic>>

\* ------------------------------------------------------------ specification
Boards ==
  {[pos |-> 0, target |-> 0, energized |-> FALSE, safe_start |-> TRUE, mode |-> "off",
    sw_rev |-> lay[1], sw_fwd |-> lay[2], cfg_fwd |-> cfg[1], cfg_rev |-> cfg[2]] :
     lay \in Layouts, cfg \in Configs}

PositionMaps == UNION {[S -> IndexVals] : S \in SUBSET Keys}

Init ==
  /\ tic \in Boards
  /\ enable = FALSE
  /\ target_steps = 0
  /\ is_motion_range_known = FALSE
  /\ allowed_motion_range = ZeroRange
  /\ fwd_lim_sw_position_tic = NaN
  /\ rev_lim_sw_position_tic = NaN
  /\ index_positions = <<>>
  /\ fwd_sw_present = checkLimitSwitch(SettingReply(tic, "fwd"))
  /\ rev_sw_present = checkLimitSwitch(SettingReply(tic, "rev"))
  /\ pc = "idle"
  /\ call = NoCall
  /\ ret = "None"
  /\ wire = <<>>
  /\ rd = FALSE
  /\ loc = NoLoc

\* wait_for_motion is exercised through moveAbsSteps; the relative and the
\* indexed move are called with wait_for_motion = False.
Next ==
  \/ \E state \in BOOLEAN : SetEnable(state)
  \/ disable
  \/ \E p \in AbsTargets, w \in BOOLEAN, o \in BOOLEAN : moveAbsSteps(p, w, o)
  \/ \E s \in RelSteps, o \in BOOLEAN : moveRelSteps(s, FALSE, o)
  \/ RelCommand
  \/ WaitPoll
  \/ \E k \in Keys, o \in BOOLEAN : moveToIndexedPosition(k, FALSE, o)
  \/ \E m \in PositionMaps : setIndexedPositions(m)
  \/ \E l \in {"fwd", "rev"}, n \in MaxStepsSet, t \in TimeoutSet : moveToLimit(l, n, t)
  \/ MtlBegin
  \/ MtlPoll
  \/ \E n \in MaxStepsSet, t \in TimeoutSet : discoverMotionRange(n, t)
  \/ DiscFwdPos
  \/ DiscRevPos
  \/ DiscHome
  \/ DiscFinish
  \/ CallReturns
  \/ DeviceStep
  \/ DeviceHomed

Spec == Init /\ [][Next]_vars

\* ------------------------------------------------------------ the range checks
\* A second specification for isTargetValid and setIndexedPositions, which
\* neither read nor write the board.  It starts from a stage as constructed
\* (range unknown) or as a successful discoverMotionRange leaves it: motor
\* enabled and standing at 0 on the reverse switch, _target_steps where the
\* reverse search aimed (the forward switch position less max_steps, with
\* max_steps the travel), reverse limit 0, forward limit the travel.
StageTravels ==
  {2 * SOFTLIMIT_BUFFER_STEPS + k : k \in (0 - ShortBy)..MaxSpan}
ProbePositions ==
  {0} \cup ((SOFTLIMIT_BUFFER_STEPS - ShortBy - 1)..(SOFTLIMIT_BUFFER_STEPS + MaxSpan + 1))
StageKeys == {1, 2}
StageVals ==
  {0, SOFTLIMIT_BUFFER_STEPS - 1, SOFTLIMIT_BUFFER_STEPS,
   SOFTLIMIT_BUFFER_STEPS + MaxSpan, SOFTLIMIT_BUFFER_STEPS + MaxSpan + 1}
StagePositionMaps == UNION {[S -> StageVals] : S \in SUBSET StageKeys}

HomedBoard(travel) ==
  [pos |-> 0, target |-> 0, energized |-> TRUE, safe_start |-> FALSE, mode |-> "pos",
   sw_rev |-> 0, sw_fwd |-> travel, cfg_fwd |-> TRUE, cfg_rev |-> TRUE]

StageInit ==
  /\ \/ /\ tic \in Boards
        /\ enable = FALSE
        /\ target_steps = 0
        /\ is_motion_range_known = FALSE
        /\ fwd_lim_sw_position_tic = NaN
        /\ rev_lim_sw_position_tic = NaN
     \/ \E travel \in StageTravels :
          /\ tic = HomedBoard(travel)
          /\ enable = TRUE
          /\ target_steps = 0 - RevOffset
          /\ is_motion_range_known = TRUE
          /\ fwd_lim_sw_position_tic = Fin(travel)
          /\ rev_lim_sw_position_tic = Fin(0)
  /\ allowed_motion_range =
       updateAllowedMotionRange(is_motion_range_known,
                                rev_lim_sw_position_tic, fwd_lim_sw_position_tic)
  /\ index_positions = <<>>
  /\ fwd_sw_present = checkLimitSwitch(SettingReply(tic, "fwd"))
  /\ rev_sw_present = checkLimitSwitch(SettingReply(tic, "rev"))
  /\ pc = "idle"
  /\ call = NoCall
  /\ ret = "None"
  /\ wire = <<>>
  /\ rd = FALSE
  /\ loc = NoLoc

StageNext ==
  \/ \E p \in ProbePositions : isTargetValidCall(p)
  \/ \E m \in StagePositionMaps : setIndexedPositions(m)
  \/ CallReturns

StageSpec == StageInit /\ [][StageNext]_vars

\* ------------------------------------------------------------ wait_for_motion, poll by poll
\* The loop of TicStage.wait_for_motion with its three position reads, for
\* motors that move one step at a time.  None is the None of Python; a
\* recorded position p is kept as <<p>>.
None == <<>>

\* The arguments and the locals of wait_for_motion on entry.  stuck_for
\* is time() - start_time, in polls, once start_time has been set.
WfmLocals(motion_tol_steps, timeout) ==
  [motion_tol_steps |-> motion_tol_steps, timeout |-> timeout,
   prev_positions |-> [i \in 1..NUM_PREV_TO_KEEP |-> None],
   is_stuck |-> FALSE, stuck_for |-> 0]

\* TicStage.moveAbsSteps(position_steps, wait_for_motion = True,
\* open_loop_assert = True, step_tolerance, timeout)
moveAbsStepsWaiting(position_steps, step_tolerance, timeout) ==
  /\ Begin(Call("moveAbsSteps", position_steps, TRUE, TRUE))
  /\ StageMoveAbs(position_steps, TRUE, TRUE, "False")
  /\ rd' = FALSE /\ loc' = WfmLocals(step_tolerance, timeout)
  /\ UNCHANGED <<enable, stage>>

\* The wall clock goes on by one poll while the loop sleeps.
Slept(l) ==
  IF l.is_stuck /\ l.stuck_for <= l.timeout
  THEN [l EXCEPT !.stuck_for = l.stuck_for + 1]
  ELSE l

\* A loop test that lets the call end anywhere below _MAX_ALLOWABLE_TOLERANCE.
WfmWhileLoose ==
  /\ pc = "wfm"
  /\ rd' = TRUE
  /\ \/ Return("raised") /\ loc' = loc
     \/ IF Abs(tic.pos - target_steps) >= MAX_ALLOWABLE_TOLERANCE
        THEN pc' = "wfm_window" /\ ret' = ret /\ loc' = Slept(loc)
        ELSE Return("True") /\ loc' = loc
  /\ UNCHANGED <<host, call, wire, tic>>

\* The test of the while loop: the position is read; outside the tolerance
\* the body starts with its sleep, inside it the call ends.
WfmWhile ==
  /\ pc = "wfm"
  /\ rd' = TRUE
  /\ \/ Return("raised") /\ loc' = loc
     \/ IF Abs(tic.pos - target_steps) > loc.motion_tol_steps
        THEN pc' = "wfm_window" /\ ret' = ret /\ loc' = Slept(loc)
        ELSE Return("True") /\ loc' = loc
  /\ UNCHANGED <<host, call, wire, tic>>

\* The test of the stall window: the position is read again.
WfmWindow ==
  /\ pc = "wfm_window"
  /\ \/ Return("raised")
     \/ LET d == Abs(tic.pos - target_steps) IN
          /\ pc' = (IF loc.motion_tol_steps < d /\ d < MAX_ALLOWABLE_TOLERANCE
                    THEN "wfm_record" ELSE "wfm")
          /\ ret' = ret
  /\ UNCHANGED <<host, call, wire, rd, loc, tic>>

\* Inside the window: the position is read a third time and recorded, the
\* stall timer is started once the kept positions are all the same, and the
\* call raises when the started timer has passed the timeout.
WfmRecord ==
  /\ pc = "wfm_record"
  /\ \/ Return("raised") /\ loc' = loc
     \/ LET prev == Tail(Append(loc.prev_positions, <<tic.pos>>))
            starts == (\A i \in 1..NUM_PREV_TO_KEEP : prev[i] = prev[1]) /\ ~loc.is_stuck
            stuck_for == IF starts THEN 0 ELSE loc.stuck_for
        IN /\ loc' = [loc EXCEPT !.prev_positions = prev,
                                 !.is_stuck = loc.is_stuck \/ starts,
                                 !.stuck_for = stuck_for]
           /\ IF (loc.is_stuck \/ starts) /\ stuck_for > loc.timeout
              THEN Return("stalled")
              ELSE pc' = "wfm" /\ ret' = ret
  /\ UNCHANGED <<host, call, wire, rd, tic>>

\* The motor advances one step towards its goal.
DeviceCreep ==
  /\ pc # "done"
  /\ Running(tic) /\ tic.mode # "off" /\ tic.pos # Goal(tic)
  /\ tic' = [tic EXCEPT !.pos = IF tic.pos < Goal(tic) THEN tic.pos + 1 ELSE tic.pos - 1]
  /\ UNCHANGED <<host, frame>>

\* A third specification, for wait_for_motion: the forward switch stands
\* WaitSwitch steps in front of the motor as it powers up; targets lie
\* before the switch and behind it, where the switch stops the motor
\* inside or outside the window of the stall check.
WaitSwitch == MAX_ALLOWABLE_TOLERANCE + 1
WaitBoards ==
  {[pos |-> 0, target |-> 0, energized |-> FALSE, safe_start |-> TRUE, mode |-> "off",
    sw_rev |-> 0 - WaitSwitch, sw_fwd |-> WaitSwitch, cfg_fwd |-> TRUE, cfg_rev |-> TRUE]}
WaitTargets ==
  {WaitSwitch - 1,
   WaitSwitch + MAX_ALLOWABLE_TOLERANCE - 1,
   WaitSwitch + MAX_ALLOWABLE_TOLERANCE + FarBy - 1}
WaitTolerances == {MOTION_TOL_STEPS, MOTION_TOL_STEPS - 2}
WaitTimeouts == {MaxStallPolls}

WaitInit ==
  /\ tic \in WaitBoards
  /\ enable = FALSE
  /\ target_steps = 0
  /\ is_motion_range_known = FALSE
  /\ allowed_motion_range = ZeroRange
  /\ fwd_lim_sw_position_tic = NaN
  /\ rev_lim_sw_position_tic = NaN
  /\ index_positions = <<>>
  /\ fwd_sw_present = checkLimitSwitch(SettingReply(tic, "fwd"))
  /\ rev_sw_present = checkLimitSwitch(SettingReply(tic, "rev"))
  /\ pc = "idle"
  /\ call = NoCall
  /\ ret = "None"
  /\ wire = <<>>
  /\ rd = FALSE
  /\ loc = NoLoc

WaitNext ==
  \/ \E state \in BOOLEAN : SetEnable(state)
  \/ \E p \in WaitTargets, tol \in WaitTolerances, t \in WaitTimeouts :
       moveAbsStepsWaiting(p, tol, t)
  \/ WfmWhile
  \/ WfmWindow
  \/ WfmRecord
  \/ CallReturns
  \/ DeviceCreep

WaitSpec == WaitInit /\ [][WaitNext]_vars

\* The loop goes round as long as it has not ended, and the motor moves as
\* long as it has not come to its goal.
FairWaitSpec ==
  /\ WaitSpec
  /\ WF_vars(WfmWhile) /\ WF_vars(WfmWindow) /\ WF_vars(WfmRecord)
  /\ WF_vars(DeviceCreep)

\* ------------------------------------------------------------ the TicStepper moves
\* The moves of StepperBase on a TicStepper, without a TicStage around it.
\* A distance, and a number of steps that comes from one, is a fraction
\* num / den with den > 0.
Frac(num, den) == [num |-> num, den |-> den]
FracAddInt(q, n) == Frac(q.num + n * q.den, q.den)

\* StepperBase._micros_per_dist
micros_per_dist == (STEPS_PER_REV \div DIST_PER_REV) * MICROSTEPS_PER_FULL_STEP

\* StepperBase._convDistToSteps
convDistToSteps(dist) == Frac(dist.num * micros_per_dist, dist.den)

\* Python's round(): to the nearest integer, a tie to the even one
PyRound(q) ==
  LET fl == q.num \div q.den
      twice == 2 * (q.num - fl * q.den)
  IN IF twice < q.den THEN fl
     ELSE IF twice > q.den THEN fl + 1
     ELSE IF fl % 2 = 0 THEN fl ELSE fl + 1

StepperInBounds(t) == Abs(t) <= StepperReach

\* StepperBase.moveAbsSteps without the test of _enable.
StepperMoveAbsUnguarded(t, w) ==
  /\ StepperInBounds(t)
  /\ target_steps' = t
  /\ \E ok \in BOOLEAN :
       /\ wire' = Append(w, Cmd("sTargetPosition", t))
       /\ IF ok
          THEN tic' = DevCmd(tic, Cmd("sTargetPosition", t)) /\ Return("None")
          ELSE tic' = tic /\ Return("raised")

\* StepperBase.moveAbsSteps with TicStepper._moveToTarget, in a call that
\* has handed the commands w to the transport.  A disabled motor gets a
\* warning ("warned") and nothing else.
StepperMoveAbs(t, w) ==
  IF ~enable
  THEN /\ UNCHANGED <<target_steps, tic>>
       /\ wire' = w
       /\ Return("warned")
  ELSE /\ StepperInBounds(t)
       /\ target_steps' = t
       /\ \E ok \in BOOLEAN :
            /\ wire' = Append(w, Cmd("sTargetPosition", t))
            /\ IF ok
               THEN tic' = DevCmd(tic, Cmd("sTargetPosition", t)) /\ Return("None")
               ELSE tic' = tic /\ Return("raised")

\* StepperBase.moveRelSteps: _convReltoAbs reads the position from the
\* board (a block read, whose request is written to the transport), then
\* moveAbsSteps is called with the rounded sum.
StepperMoveRel(rel_target_steps) ==
  /\ rd' = TRUE
  /\ \E ok \in BOOLEAN :
       IF ~ok
       THEN UNCHANGED <<target_steps, tic>> /\ wire' = <<>> /\ Return("raised")
       ELSE StepperMoveAbs(PyRound(FracAddInt(rel_target_steps, tic.pos)), <<>>)

\* StepperBase.moveAbsSteps as an API call
StepperMoveAbsSteps(t) ==
  /\ Begin(Call("StepperBase.moveAbsSteps", t, FALSE, FALSE))
  /\ StepperMoveAbs(t, <<>>)
  /\ rd' = FALSE /\ loc' = NoLoc
  /\ UNCHANGED <<enable, stage>>

\* StepperBase.moveRelSteps as an API call
StepperMoveRelSteps(rel_target_steps) ==
  /\ Begin(Call("StepperBase.moveRelSteps", rel_target_steps, FALSE, FALSE))
  /\ StepperMoveRel(Frac(rel_target_steps, 1))
  /\ loc' = NoLoc
  /\ UNCHANGED <<enable, stage>>

\* StepperBase.moveAbsDist
StepperMoveAbsDist(target_dist) ==
  /\ Begin(Call("StepperBase.moveAbsDist", target_dist, FALSE, FALSE))
  /\ StepperMoveAbs(PyRound(convDistToSteps(target_dist)), <<>>)
  /\ rd' = FALSE /\ loc' = NoLoc
  /\ UNCHANGED <<enable, stage>>

\* StepperBase.moveRelDist
StepperMoveRelDist(rel_target_dist) ==
  /\ Begin(Call("StepperBase.moveRelDist", rel_target_dist, FALSE, FALSE))
  /\ StepperMoveRel(convDistToSteps(rel_target_dist))
  /\ loc' = NoLoc
  /\ UNCHANGED <<enable, stage>>

\* StepperBase.stop
StepperStop ==
  /\ Begin(Call("StepperBase.stop", 0, FALSE, FALSE))
  /\ StepperMoveRel(Frac(0, 1))
  /\ loc' = NoLoc
  /\ UNCHANGED <<enable, stage>>

\* TicStepper.setCurrentPositionAs, with an int
setCurrentPositionAs(positionSteps) ==
  /\ Begin(Call("setCurrentPositionAs", positionSteps, FALSE, FALSE))
  /\ \E ok \in BOOLEAN :
       /\ wire' = <<Cmd("haltAndSetPosition", positionSteps)>>
       /\ IF ok
          THEN /\ tic' = DevCmd(tic, Cmd("haltAndSetPosition", positionSteps))
               /\ target_steps' = positionSteps
               /\ Return("None")
          ELSE UNCHANGED <<target_steps, tic>> /\ Return("raised")
  /\ rd' = FALSE /\ loc' = NoLoc
  /\ UNCHANGED <<enable, stage>>

\* TicStepper.home(direc) as an API call, with direc 'fwd' or 'rev': the
\* setting is read, and goHome is written if checkLimitSwitch says so;
\* otherwise there is a warning ("warned").
StepperHome(direc) ==
  /\ Begin(Call("home", direc, FALSE, FALSE))
  /\ rd' = TRUE
  /\ \/ \* the setting read fails
        /\ wire' = <<>> /\ tic' = tic /\ Return("raised")
     \/ \* the goHome write fails
        /\ HomeCmds(direc) # <<>>
        /\ wire' = HomeCmds(direc) /\ tic' = tic /\ Return("raised")
     \/ /\ wire' = HomeCmds(direc)
        /\ tic' = ApplyCmds(tic, HomeCmds(direc))
        /\ Return(IF HomeCmds(direc) = <<>> THEN "warned" ELSE "None")
  /\ loc' = NoLoc
  /\ UNCHANGED <<host>>

\* A fourth specification: a TicStepper as constructed, and the calls of its
\* move API.  Distances come in halves of a step.
StepperTargets == {0 - StepperReach, 0 - 1, 0, 2, StepperReach}
StepperRelSteps == {0 - 1, 1}
StepperDists == {Frac(n, 2 * micros_per_dist) : n \in (0 - 3)..3}

\* a board without limit switches
StepperBoards ==
  {[pos |-> 0, target |-> 0, energized |-> FALSE, safe_start |-> TRUE, mode |-> "off",
    sw_rev |-> 0, sw_fwd |-> 0, cfg_fwd |-> FALSE, cfg_rev |-> FALSE]}

StepperInit ==
  /\ tic \in StepperBoards
  /\ enable = FALSE
  /\ target_steps = 0
  /\ is_motion_range_known = FALSE
  /\ allowed_motion_range = ZeroRange
  /\ fwd_lim_sw_position_tic = NaN
  /\ rev_lim_sw_position_tic = NaN
  /\ index_positions = <<>>
  /\ fwd_sw_present = FALSE
  /\ rev_sw_present = FALSE
  /\ pc = "idle"
  /\ call = NoCall
  /\ ret = "None"
  /\ wire = <<>>
  /\ rd = FALSE
  /\ loc = NoLoc

StepperNext ==
  \/ \E state \in BOOLEAN : SetEnable(state)
  \/ \E t \in StepperTargets : StepperMoveAbsSteps(t)
  \/ \E r \in StepperRelSteps : StepperMoveRelSteps(r)
  \/ \E d \in StepperDists : StepperMoveAbsDist(d)
  \/ \E d \in StepperDists : StepperMoveRelDist(d)
  \/ StepperStop
  \/ \E p \in StepperTargets : setCurrentPositionAs(p)
  \/ \E d \in {"fwd", "rev"} : StepperHome(d)
  \/ CallReturns
  \/ DeviceCreep

StepperSpec == StepperInit /\ [][StepperNext]_vars

\* ------------------------------------------------------------ properties
\* The calls that command a target position under the soft limits.
MoveOps == {"moveAbsSteps", "moveRelSteps", "moveToIndexedPosition"}

\* C1: soft-limit safety.  While the range is known, every sTargetPosition
\* command a move has got through to the board carries a target inside the
\* allowed range, however the motor's own motion interleaves with the call.
C1_SoftLimitSafety ==
  (call.op \in MoveOps /\ is_motion_range_known /\ ret # "raised") =>
    \A i \in DOMAIN wire :
      wire[i].cmd = "sTargetPosition" => isTargetValid(wire[i].data)

\* C2: with the range known and the target outside it, moveAbsSteps returns
\* False whatever allow_open_loop is, hands no command to the transport and
\* leaves the target step count as it was.
C2_InvalidTargetRefused ==
  [][(/\ pc = "idle" /\ call'.op = "moveAbsSteps"
      /\ is_motion_range_known /\ ~isTargetValid(call'.arg))
     => (/\ pc' = "done" /\ ret' = "False"
         /\ wire' = <<>> /\ tic' = tic
         /\ target_steps' = target_steps)]_vars

C2_Witness ==
  /\ pc = "done" /\ call.op = "moveAbsSteps" /\ call.open
  /\ enable /\ Running(tic)
  /\ is_motion_range_known
  /\ XLeq(allowed_motion_range[1], allowed_motion_range[2])
  /\ ~isTargetValid(call.arg)
  /\ ret = "False" /\ wire = <<>>

\* C3: with the range unknown, moveAbsSteps without allow_open_loop is
\* refused without a single transport operation, in every reachable state,
\* so after any history of calls.
C3_ClosedLoopRefusedWhileUnknown ==
  [][(/\ pc = "idle" /\ call'.op = "moveAbsSteps"
      /\ ~is_motion_range_known /\ ~call'.open)
     => (/\ pc' = "done" /\ ret' = "False"
         /\ wire' = <<>> /\ ~rd' /\ tic' = tic
         /\ target_steps' = target_steps)]_vars

C3_Witness ==
  /\ pc = "done" /\ call.op = "moveAbsSteps" /\ ~call.open
  /\ ~is_motion_range_known
  /\ enable /\ Running(tic) /\ tic.mode = "pos"
  /\ ret = "False" /\ wire = <<>> /\ ~rd

\* C4: in every reachable state, an unknown range is the range [0, 0].
C4_UnknownRangeIsZero ==
  ~is_motion_range_known => allowed_motion_range = ZeroRange

\* A homing run that fails on the transport, after a range had been
\* discovered and then dropped by a disable.
C4_Witness ==
  /\ pc = "done" /\ call.op = "discoverMotionRange" /\ loc.err
  /\ IsFin(fwd_lim_sw_position_tic)
  /\ ~is_motion_range_known
  /\ allowed_motion_range = ZeroRange

\* C5: disable() leaves the stage disabled, the range unknown and [0, 0],
\* also when the writes that de-energize the motor fail.
C5_DisableClears ==
  (pc = "done" /\ call.op = "disable") =>
    /\ ~enable
    /\ ~is_motion_range_known
    /\ allowed_motion_range = ZeroRange

\* A disable whose write failed (the board is still energized), on a stage
\* that had discovered its range.
C5_Witness ==
  /\ pc = "done" /\ call.op = "disable" /\ ret = "False"
  /\ IsFin(fwd_lim_sw_position_tic)
  /\ tic.energized
  /\ ~enable /\ ~is_motion_range_known /\ allowed_motion_range = ZeroRange

\* C6: in every reachable state, a motor whose enable flag is off has an
\* unknown range.
C6_DisabledImpliesUnknown ==
  ~enable => ~is_motion_range_known

\* C7: moveToLimit returns True exactly when its poll loop read the limit
\* flag active, and False when the loop ended on the step or time budget.
C7_ResultIsObservation ==
  (/\ pc = "done" /\ call.op = "moveToLimit" /\ loc.ctx = "api"
   /\ ret \in {"True", "False"})
  => (ret = "True" <=> loc.limit_active)

\* C8: a discoverMotionRange whose reverse poll loop ended without reading
\* the reverse flag active (and without a transport failure) returns False,
\* with the range unknown and the motor disabled.
C8_NoRangeWithoutReverseLimit ==
  (/\ pc = "done" /\ call.op = "discoverMotionRange"
   /\ loc.limit = "rev" /\ ~loc.limit_active /\ ~loc.err)
  => (ret = "False" /\ ~is_motion_range_known /\ ~enable)

\* C9: a discoverMotionRange in which a transport operation raised ends as
\* a failure, with the motor disabled and the range unknown.
C9_TransportFailureAborts ==
  (pc = "done" /\ call.op = "discoverMotionRange" /\ loc.err)
  => (/\ ret \in {"False", "raised"}
      /\ ~enable
      /\ ~is_motion_range_known)

\* C10: after a discoverMotionRange that returns True with both switches
\* present, the reverse limit is 0, the forward limit is fwd_pos - rev_pos,
\* and the allowed range is [buffer, fwd_pos - rev_pos - buffer]; limits
\* measured at 1000 and -500 give [20, 1480].
C10_RezeroedRange ==
  /\ (/\ pc = "done" /\ call.op = "discoverMotionRange" /\ ret = "True"
      /\ fwd_sw_present /\ rev_sw_present)
     => (/\ rev_lim_sw_position_tic = Fin(0)
         /\ fwd_lim_sw_position_tic = XSub(loc.fwd_pos, loc.rev_pos)
         /\ is_motion_range_known
         /\ allowed_motion_range =
              Range(Fin(SOFTLIMIT_BUFFER_STEPS),
                    XSub(XSub(loc.fwd_pos, loc.rev_pos), Fin(SOFTLIMIT_BUFFER_STEPS))))
  /\ updateAllowedMotionRange(TRUE, Fin(0), XSub(Fin(1000), Fin(-500)))
       = Range(Fin(20), Fin(1480))

\* A homing run that met both switches: the forward one in front of the
\* power-up position, the reverse one behind it.
C10_Witness ==
  /\ pc = "done" /\ call.op = "discoverMotionRange" /\ ret = "True"
  /\ fwd_sw_present /\ rev_sw_present
  /\ loc.limit_active
  /\ loc.fwd_pos = Fin(Travel - RevOffset)
  /\ loc.rev_pos = Fin(0 - RevOffset)
  /\ fwd_lim_sw_position_tic = Fin(Travel)
  /\ allowed_motion_range = Range(Fin(SOFTLIMIT_BUFFER_STEPS), Fin(Travel - SOFTLIMIT_BUFFER_STEPS))

\* C11: a discoverMotionRange called while the motor is disabled, while the
\* range is already known, or with neither limit switch present returns
\* False at once: no command is handed to the transport, the board is not
\* touched and enable, the known flag, the allowed range, the limit
\* positions and the indexed positions keep their values.
C11_DiscoverOnlyFromRangeUnknown ==
  [][(/\ pc = "idle" /\ call'.op = "discoverMotionRange"
      /\ \/ ~enable
         \/ is_motion_range_known
         \/ (~fwd_sw_present /\ ~rev_sw_present))
     => (/\ pc' = "done" /\ ret' = "False"
         /\ wire' = <<>> /\ tic' = tic
         /\ UNCHANGED host)]_vars

\* C12: with the range known, isTargetValid(pos) returns True exactly when
\* allowedLower <= pos <= allowedUpper, either bound included.
C12_ValidIffInsideInclusive ==
  (pc = "done" /\ call.op = "isTargetValid" /\ is_motion_range_known)
  => (ret = "True" <=> (/\ allowed_motion_range[1].v <= call.arg
                        /\ call.arg <= allowed_motion_range[2].v))

\* The upper bound of a range of more than one position is found valid.
C12_Witness ==
  /\ pc = "done" /\ call.op = "isTargetValid" /\ is_motion_range_known
  /\ IsFin(allowed_motion_range[1]) /\ IsFin(allowed_motion_range[2])
  /\ allowed_motion_range[1].v < allowed_motion_range[2].v
  /\ call.arg = allowed_motion_range[2].v
  /\ ret = "True"

\* C13: with the range unknown, isTargetValid returns False for every
\* position, 0 included, the value of both bounds of the reset range.
C13_InvalidWhileUnknown ==
  (pc = "done" /\ call.op = "isTargetValid" /\ ~is_motion_range_known)
  => ret = "False"

\* Position 0 is refused while the range is [0, 0] and unknown.
C13_Witness ==
  /\ pc = "done" /\ call.op = "isTargetValid" /\ ~is_motion_range_known
  /\ allowed_motion_range = ZeroRange
  /\ call.arg = 0
  /\ ret = "False"

\* C14: setIndexedPositions with the range known and a value of the map
\* outside [allowedLower, allowedUpper] returns False and leaves the stored
\* map as it was; with every value inside, and whenever the range is
\* unknown, it returns True and the stored map holds every entry of the
\* supplied map, and its other entries as before.
C14_AllOrNothing ==
  [][(pc = "idle" /\ call'.op = "setIndexedPositions")
     => LET m == call'.arg
            outside(v) == \/ v < allowed_motion_range[1].v
                          \/ v > allowed_motion_range[2].v
        IN IF is_motion_range_known /\ \E k \in DOMAIN m : outside(m[k])
           THEN ret' = "False" /\ index_positions' = index_positions
           ELSE /\ ret' = "True"
                /\ DOMAIN index_positions' = (DOMAIN index_positions) \cup (DOMAIN m)
                /\ \A k \in DOMAIN m : index_positions'[k] = m[k]
                /\ \A k \in (DOMAIN index_positions) \ (DOMAIN m) :
                     index_positions'[k] = index_positions[k]]_vars

\* A map with one valid and one invalid value is refused on a stage that
\* already stores a position under the key of the valid one.
C14_Witness ==
  /\ pc = "done" /\ call.op = "setIndexedPositions" /\ ret = "False"
  /\ is_motion_range_known
  /\ DOMAIN call.arg = {1, 2}
  /\ isTargetValid(call.arg[1]) /\ ~isTargetValid(call.arg[2])
  /\ DOMAIN index_positions = {1}
  /\ index_positions[1] # call.arg[1]

\* C15: a wait_for_motion on a motor that has stopped outside the tolerance
\* does not block forever: whatever the distance to the target, every wait
\* that has begun comes to an end (by raising for the stalled motor).
C15_StalledWaitEnds ==
  (pc \in {"wfm", "wfm_window", "wfm_record"}) ~> (pc = "done")

\* C16: wait_for_motion does not raise for a stalled motor on a poll that
\* reads the motor nearer to the target than the poll recorded before it,
\* also when earlier polls had read one and the same position.
C16_NoStallWhileApproaching ==
  [][(/\ pc = "wfm_record"
      /\ loc.prev_positions[NUM_PREV_TO_KEEP] # None
      /\ Abs(tic.pos - target_steps)
           < Abs(loc.prev_positions[NUM_PREV_TO_KEEP][1] - target_steps))
     => ret' # "stalled"]_vars

\* C17: a moveAbsSteps that waits returns normally only on a poll that reads
\* the motor within the tolerance of the target.
C17_ReturnsOnlyWithinTolerance ==
  (pc = "done" /\ call.op = "moveAbsSteps" /\ call.wait /\ ret = "True")
  => Abs(tic.pos - target_steps) <= loc.motion_tol_steps

\* A wait with a tolerance of its own that ends on the edge of the
\* tolerance, after polls that recorded the motor farther away.
C17_Witness ==
  /\ pc = "done" /\ call.op = "moveAbsSteps" /\ call.wait /\ ret = "True"
  /\ loc.motion_tol_steps = MOTION_TOL_STEPS - 2
  /\ Abs(tic.pos - target_steps) = loc.motion_tol_steps
  /\ loc.prev_positions[NUM_PREV_TO_KEEP] # None
  /\ target_steps = call.arg

\* C18: an enable setter that completes has handed exactly two commands to
\* the transport: energize (0x85) then exitSafeStart (0x83) for True,
\* enterSafeStart (0x8F) then deenergize (0x86) for False; and after every
\* call of the setter, completed or not, the enable flag is the requested
\* state.
C18_EnableSequence ==
  (pc = "done" /\ call.op = "enable")
  => /\ enable = call.open
     /\ ret = "None" =>
          Offsets(wire) = (IF call.open THEN <<\h85, \h83>> ELSE <<\h8F, \h86>>)

\* A completed enable(False) on a motor that was running: the board has
\* entered safe start and is de-energized.
C18_Witness ==
  /\ pc = "done" /\ call.op = "enable" /\ ~call.open /\ ret = "None"
  /\ ~enable
  /\ Offsets(wire) = <<\h8F, \h86>>
  /\ tic.safe_start /\ ~tic.energized
  /\ is_motion_range_known

StepperMoveOps ==
  {"StepperBase.moveAbsSteps", "StepperBase.moveRelSteps",
   "StepperBase.moveAbsDist", "StepperBase.moveRelDist", "StepperBase.stop"}

\* C19: a moveAbsSteps, moveRelSteps, moveAbsDist, moveRelDist or stop
\* called while the motor is disabled leaves _target_steps as it was; so
\* does, step by step, every sequence of them.
C19_TargetKeptWhileDisabled ==
  [][(pc = "idle" /\ ~enable /\ call'.op \in StepperMoveOps)
     => target_steps' = target_steps]_vars

\* A relative move by a distance, asked of a disabled motor that keeps a
\* target from the time it was enabled; the move would have led elsewhere.
C19_Witness ==
  /\ pc = "done" /\ call.op = "StepperBase.moveRelDist" /\ ~enable
  /\ ret = "warned"
  /\ target_steps # 0
  /\ PyRound(FracAddInt(convDistToSteps(call.arg), tic.pos)) # target_steps

\* C20: a moveAbsSteps, moveRelSteps, moveAbsDist or moveRelDist called
\* while the motor is disabled fails (with the warning that the motor is
\* not enabled) and hands nothing to the transport: no command, and no
\* request to read the position either.
C20_NoWriteWhileDisabled ==
  [][(/\ pc = "idle" /\ ~enable
      /\ call'.op \in StepperMoveOps \ {"StepperBase.stop"})
     => (/\ pc' = "done" /\ ret' = "warned"
         /\ wire' = <<>> /\ ~rd'
         /\ tic' = tic)]_vars

\* Rounding to the nearest integer with a tie going away from zero.
RoundHalfAway(q) ==
  LET fl == q.num \div q.den
      twice == 2 * (q.num - fl * q.den)
  IN IF twice < q.den THEN fl
     ELSE IF twice > q.den THEN fl + 1
     ELSE IF q.num >= 0 THEN fl + 1 ELSE fl

\* C21: a moveAbsDist, a moveRelSteps or a moveRelDist that commands the
\* enabled motor sets the target to the computed number of steps rounded to
\* the nearest integer, a tie of k + 1/2 going to k + 1 and its negative to
\* -(k + 1).
C21_RoundsHalfAwayFromZero ==
  (pc = "done" /\ enable /\ ret = "None") =>
    /\ call.op = "StepperBase.moveAbsDist" =>
         target_steps = RoundHalfAway(convDistToSteps(call.arg))
    /\ call.op = "StepperBase.moveRelDist" =>
         target_steps = RoundHalfAway(FracAddInt(convDistToSteps(call.arg), tic.pos))
    /\ call.op = "StepperBase.moveRelSteps" =>
         target_steps = RoundHalfAway(FracAddInt(Frac(call.arg, 1), tic.pos))

\* ------------------------------------------------------------ the transports
\* A Python integer wider than the checker's own: the value hi * 2^16 + lo,
\* with lo in 0..2^16-1 (hi is negative for a negative value).
Wide(hi, lo) == [hi |-> hi, lo |-> lo]

RECURSIVE BitAnd(_, _)
\* a & m for a mask m >= 0; a negative a counts as its two's complement image.
BitAnd(a, m) ==
  IF m = 0 THEN 0
  ELSE (a % 2) * (m % 2) + 2 * BitAnd(a \div 2, m \div 2)

RECURSIVE BitOr(_, _)
\* a | b for a, b >= 0
BitOr(a, b) ==
  IF a = 0 /\ b = 0 THEN 0
  ELSE (IF a % 2 = 1 \/ b % 2 = 1 THEN 1 ELSE 0) + 2 * BitOr(a \div 2, b \div 2)

\* (data >> s) & m for a wide integer, s in 0..31 and a mask m below 2^16:
\* the low 16 bits of the shifted value are all the mask can see.
ShiftAnd(data, s, m) ==
  LET low == IF s < 16
             THEN (data.lo \div (2 ^ s)) + (data.hi % (2 ^ s)) * (2 ^ (16 - s))
             ELSE (data.hi \div (2 ^ (s - 16))) % (2 ^ 16)
  IN BitAnd(low, m)

\* bytes(list) raises ValueError unless every element is in range(256).
IsBytes(s) == \A i \in DOMAIN s : s[i] \in 0..255

\* TicStepper._command_dict: [offset, protocol] of an operation
command_dict(name) ==
  CASE name = "sTargetPosition"     -> <<\hE0, "32">>
    [] name = "sTargetVelocity"     -> <<\hE3, "32">>
    [] name = "haltAndSetPosition"  -> <<\hEC, "32">>
    [] name = "haltAndHoldPosition" -> <<\h89, "quick">>
    [] name = "goHome"              -> <<\h97, "7">>
    [] name = "deenergize"          -> <<\h86, "quick">>
    [] name = "energize"            -> <<\h85, "quick">>
    [] name = "exitSafeStart"       -> <<\h83, "quick">>
    [] name = "enterSafeStart"      -> <<\h8F, "quick">>
    [] name = "rst"                 -> <<\hB0, "quick">>
    [] name = "sMaxSpeed"           -> <<\hE6, "32">>
    [] name = "sStepMode"           -> <<\h94, "7">>
    [] name = "sCurrentLimit"       -> <<\h91, "7">>
    [] name = "gVariable"           -> <<\hA1, "read">>
    [] name = "gSetting"            -> <<\hA8, "read">>

\* TicStepper._variable_dict: [offset_address, bytes_to_read] of a variable
variable_dict(name) ==
  CASE name = "curr_position" -> <<\h22, 4>>
    [] name = "operation_state" -> <<\h00, 1>>
    [] name = "misc_flags1"   -> <<\h01, 1>>
    [] name = "error_status"  -> <<\h02, 2>>

\* The locals a send leaves: the list it returns, and the exception it raised.
ComLocals(result, error) == [result |-> result, error |-> error]

\* _makeSerialInput with the offset of an addressed header left unmasked.
makeSerialInputUnmasked(device_number, offset, data) ==
  LET header == IF device_number = None
                THEN <<offset>>
                ELSE <<\hAA, device_number[1], offset>>
  IN header \o data

\* TicSerial._makeSerialInput, before bytes() has looked at the list; no
\* data is the empty list.
makeSerialInput(device_number, offset, data) ==
  LET header == IF device_number = None
                THEN <<offset>>
                ELSE <<\hAA, device_number[1], BitAnd(offset, \h7F)>>
  IN header \o data

\* The data of TicSerial.send with a stuffing byte that keeps no bit.
SerialDataUnstuffed(protocol, data) ==
  CASE protocol = "quick" -> <<>>
    [] protocol = "read"  -> data
    [] protocol = "7"     -> <<data>>
    [] protocol = "32"    ->
         << 0, ShiftAnd(data, 0, \h7F), ShiftAnd(data, 8, \h7F),
            ShiftAnd(data, 16, \h7F), ShiftAnd(data, 24, \h7F) >>

\* The data bytes TicSerial.send puts behind the header.
SerialData(protocol, data) ==
  CASE protocol = "quick" -> <<>>
    [] protocol = "read"  -> data
    [] protocol = "7"     -> <<data>>
    [] protocol = "32"    ->
         << BitOr(BitOr(ShiftAnd(data, 7, 1), ShiftAnd(data, 14, 2)),
                  BitOr(ShiftAnd(data, 21, 4), ShiftAnd(data, 28, 8))),
            ShiftAnd(data, 0, \h7F), ShiftAnd(data, 8, \h7F),
            ShiftAnd(data, 16, \h7F), ShiftAnd(data, 24, \h7F) >>

\* The command list of TicI2C.send with the four bytes most significant first.
I2CCommandBigEndian(offset, protocol, data) ==
  CASE protocol = "quick" -> <<offset>>
    [] protocol = "read"  -> <<offset, data[1]>>
    [] protocol = "7"     -> <<offset, data>>
    [] protocol = "32"    ->
         << offset, ShiftAnd(data, 24, \hFF), ShiftAnd(data, 16, \hFF),
            ShiftAnd(data, 8, \hFF), ShiftAnd(data, 0, \hFF) >>

\* The command list of TicI2C.send with the top byte masked to seven bits.
I2CCommandSignless(offset, protocol, data) ==
  CASE protocol = "quick" -> <<offset>>
    [] protocol = "read"  -> <<offset, data[1]>>
    [] protocol = "7"     -> <<offset, data>>
    [] protocol = "32"    ->
         << offset, ShiftAnd(data, 0, \hFF), ShiftAnd(data, 8, \hFF),
            ShiftAnd(data, 16, \hFF), ShiftAnd(data, 24, \h7F) >>

\* The command list TicI2C.send hands to i2c_msg.write.
I2CCommand(offset, protocol, data) ==
  CASE protocol = "quick" -> <<offset>>
    [] protocol = "read"  -> <<offset, data[1]>>
    [] protocol = "7"     -> <<offset, data>>
    [] protocol = "32"    ->
         << offset, ShiftAnd(data, 0, \hFF), ShiftAnd(data, 8, \hFF),
            ShiftAnd(data, 16, \hFF), ShiftAnd(data, 24, \hFF) >>

\* What a send comes to: the messages written to the transport, whether a
\* read was issued, the list returned, the exception raised, and "None" or
\* "raised" for the way the call ends.
Outcome(written, read, result, error, r) ==
  [written |-> written, read |-> read, result |-> result, error |-> error, r |-> r]

\* TicSerial.send(operation, data) on a port opened with device_number.
\* The port answers a read with up to data[1] bytes before its timeout.
TicSerialSend(device_number, operation, data, answer) ==
  LET command == makeSerialInput(device_number, operation[1],
                                 SerialData(operation[2], data))
  IN IF ~IsBytes(command)
     THEN Outcome(<<>>, FALSE, <<>>, "ValueError", "raised")
     ELSE IF operation[2] # "read"
     THEN Outcome(<<command>>, FALSE, <<>>, "none", "None")
     ELSE IF Len(answer) # data[2]
     THEN Outcome(<<command>>, TRUE, <<>>, "RuntimeError", "raised")
     ELSE Outcome(<<command>>, TRUE, answer, "none", "None")

\* TicI2C.send(operation, data).  i2c_msg.write belongs to smbus2, which is
\* not part of the repository: a list that is not made of bytes it either
\* refuses (checks) or hands on as it is.  A read returns what the bus gave.
TicI2CSend(operation, data, answer, checks) ==
  LET command == I2CCommand(operation[1], operation[2], data)
  IN IF ~IsBytes(command) /\ checks
     THEN Outcome(<<>>, FALSE, <<>>, "ValueError", "raised")
     ELSE IF operation[2] # "read"
     THEN Outcome(<<command>>, FALSE, <<>>, "none", "None")
     ELSE Outcome(<<command>>, TRUE, answer, "none", "None")

\* The call ends as the send did.
Sent(o) ==
  /\ wire' = o.written /\ rd' = o.read
  /\ loc' = ComLocals(o.result, o.error)
  /\ Return(o.r)

\* The arguments of a send, as the call keeps them.
SendArgs(com, device_number, operation, data) ==
  [com |-> com, device_number |-> device_number, operation |-> operation, data |-> data]

\* A fifth specification: the two transports as functions of their
\* arguments.  The device number is the one the tests open the port with.
TestDeviceNumber == 14
DeviceNumbers == {None, <<TestDeviceNumber>>}
QuickOps == {command_dict("haltAndHoldPosition"), command_dict("energize")}
Write7Ops == {command_dict("goHome"), command_dict("sStepMode")}
Write32Ops == {command_dict("sTargetPosition"), command_dict("sMaxSpeed")}
ReadOps == {command_dict("gVariable")}
Write7Payloads == {0, 3, 127, 128, 255, 256}
Write32Payloads ==
  { Wide(0, 0), Wide(0, 1), Wide(0, 128), Wide(0, 32768), Wide(128, 0),
    Wide(291, 17767), Wide(32767, 65535), Wide(32768, 0), Wide(65535, 65535),
    Wide(0 - 1, 65535), Wide(0 - 1, 65436), Wide(0 - 32768, 0) }
Variables == {variable_dict("curr_position"), variable_dict("misc_flags1")}
Answers ==
  { <<>>, <<4>>, <<0, 0>>, <<0, 0, 0, 0>>, <<1, 0, 0, 0>>, <<0, 1, 0, 0>>,
    <<255, 255, 255, 127>>, <<0, 0, 0, 128>>, <<255, 255, 255, 255>>,
    <<156, 255, 255, 255>> }

\* TicSerial.send as a call.
SerialSendCall(device_number, operation, data, answer) ==
  /\ Begin(Call("TicSerial.send", SendArgs("SERIAL", device_number, operation, data),
                FALSE, FALSE))
  /\ Sent(TicSerialSend(device_number, operation, data, answer))
  /\ UNCHANGED <<host, tic>>

\* TicI2C.send as a call.
I2CSendCall(operation, data, answer, checks) ==
  /\ Begin(Call("TicI2C.send", SendArgs("I2C", None, operation, data), FALSE, FALSE))
  /\ Sent(TicI2CSend(operation, data, answer, checks))
  /\ UNCHANGED <<host, tic>>

\* bytesToInt with the bytes taken most significant first.
bytesToIntBigEndian(b) ==
  IF Len(b) >= 4
  THEN Wide(b[2] + b[1] * (2 ^ 8), b[4] + b[3] * (2 ^ 8))
  ELSE Wide(0, b[2] + b[1] * (2 ^ 8))

\* TicStepper.bytesToInt: b[0] + (b[1] << 8), and (b[2] << 16) + (b[3] << 24)
\* on top where the list has them; the finally clause returns the 16-bit
\* value when it has not.
bytesToInt(b) ==
  LET val == b[1] + b[2] * (2 ^ 8)
  IN IF Len(b) >= 4 THEN Wide(b[3] + b[4] * (2 ^ 8), val) ELSE Wide(0, val)

\* TicStepper._position_in_steps, from the reply b on: 2^32 is taken off a
\* location of 2^31 or more.  The result is within the checker's integers.
position_in_steps(b) ==
  LET location == bytesToInt(b)
      signed == IF location.hi >= 2 ^ 15
                THEN Wide(location.hi - 2 ^ 16, location.lo)
                ELSE location
  IN signed.hi * (2 ^ 16) + signed.lo

\* The locals of _position_in_steps.
PositionLocals(b, location, error) == [b |-> b, location |-> location, error |-> error]

\* StepperBase.position('steps') of a TicStepper on either transport.
PositionCall(com, device_number, answer) ==
  /\ Begin(Call("position",
                SendArgs(com, device_number, command_dict("gVariable"),
                         variable_dict("curr_position")), FALSE, FALSE))
  /\ LET o == IF com = "SERIAL"
              THEN TicSerialSend(device_number, command_dict("gVariable"),
                                 variable_dict("curr_position"), answer)
              ELSE TicI2CSend(command_dict("gVariable"),
                              variable_dict("curr_position"), answer, TRUE)
     IN /\ wire' = o.written /\ rd' = o.read
        /\ IF o.r = "raised"
           THEN loc' = PositionLocals(<<>>, 0, o.error) /\ Return("raised")
           ELSE /\ loc' = PositionLocals(o.result, position_in_steps(o.result), "none")
                /\ Return("None")
  /\ UNCHANGED <<host, tic>>

\* _MAX_RESP_BITS and the three tables of tic_stepper.py, each with the keys
\* it has.
MAX_RESP_BITS == 8
error_status_dict ==
  [i \in 0..8 |->
     << "Intentionally de-energized", "Motor driver error", "Low VIN",
        "Kill switch active", "Required input invalid", "Serial error",
        "Command timeout", "Safe start violation", "ERR line high" >>[i + 1]]
misc_bit_dict ==
  [i \in 0..4 |->
     << "Energized", "Position uncertain", "Forward limit active",
        "Reverse limit active", "Homing active" >>[i + 1]]
op_state_dict ==
  [c \in {0, 2, 4, 6, 8, 10} |->
     << "Reset", "De-engergized", "Soft error", "Waiting for ERR line",
        "Starting up", "Normal" >>[c \div 2 + 1]]

\* com.send on either transport
ComSend(com, device_number, operation, data, answer) ==
  IF com = "SERIAL"
  THEN TicSerialSend(device_number, operation, data, answer)
  ELSE TicI2CSend(operation, data, answer, TRUE)

\* TicStepper._getmotor_status: the three reads, one after the other; an
\* exception in any of them is caught and the three responses are False.
getmotor_status(com, device_number, answers) ==
  LET send(v, a) == ComSend(com, device_number, command_dict("gVariable"),
                            variable_dict(v), a)
      misc == send("misc_flags1", answers.misc)
      err  == send("error_status", answers.err)
      op   == send("operation_state", answers.op)
  IN IF misc.r = "raised"
     THEN [written |-> misc.written, caught |-> TRUE]
     ELSE IF err.r = "raised"
     THEN [written |-> misc.written \o err.written, caught |-> TRUE]
     ELSE [written |-> misc.written \o err.written \o op.written,
           caught |-> op.r = "raised",
           misc_resp |-> misc.result, err_resp |-> err.result, op_resp |-> op.result]

\* The bits i of range(_MAX_RESP_BITS), in the order of the loop, that pass a test.
RespBits(Test(_)) == SelectSeq([k \in 1..MAX_RESP_BITS |-> k - 1], Test)

\* The messages that the loop of getAndParsemotor_status appends to one list.
Messages(bits, dict, key(_)) == [k \in 1..Len(bits) |-> dict[key(bits[k])]]

\* What getAndParsemotor_status leaves: the dictionary it returns, or the
\* exception it raises ("TypeError" for False[0], "KeyError" for a key that
\* a table does not have).
StatusLocals(OperationStatus, ErrorStatus, PositionStatus, error) ==
  [OperationStatus |-> OperationStatus, ErrorStatus |-> ErrorStatus,
   PositionStatus |-> PositionStatus, error |-> error]

\* TicStepper.getAndParsemotor_status, from the responses on
ParseMotorStatus(misc_resp, err_resp, op_resp) ==
  LET misc_bits == RespBits(LAMBDA i : BitAnd(misc_resp[1], 2 ^ i) # 0)
      op_bits   == RespBits(LAMBDA i : op_resp[1] = 2 * i)
      err_bits  == RespBits(LAMBDA i : BitAnd(err_resp[1], 2 ^ i) # 0)
      Twice(i)  == 2 * i
      Same(i)   == i
  IN IF \/ \E k \in DOMAIN misc_bits : misc_bits[k] \notin DOMAIN misc_bit_dict
        \/ \E k \in DOMAIN op_bits : 2 * op_bits[k] \notin DOMAIN op_state_dict
        \/ \E k \in DOMAIN err_bits : err_bits[k] \notin DOMAIN error_status_dict
     THEN StatusLocals(<<>>, <<>>, <<>>, "KeyError")
     ELSE StatusLocals(Messages(op_bits, op_state_dict, Twice),
                       Messages(err_bits, error_status_dict, Same),
                       Messages(misc_bits, misc_bit_dict, Same), "none")

\* The bytes that the board answers the three reads with.
StatusAnswers(misc, err, op) == [misc |-> misc, err |-> err, op |-> op]

\* The transport, and the answers of the board, as the call keeps them.
StatusArgs(com, device_number, answers) ==
  [com |-> com, device_number |-> device_number, answers |-> answers]

\* TicStepper.getAndParsemotor_status as a call
StatusCall(com, device_number, answers) ==
  /\ Begin(Call("getAndParsemotor_status", StatusArgs(com, device_number, answers),
                FALSE, FALSE))
  /\ LET s == getmotor_status(com, device_number, answers)
     IN /\ wire' = s.written /\ rd' = TRUE
        /\ IF s.caught
           THEN loc' = StatusLocals(<<>>, <<>>, <<>>, "TypeError") /\ Return("raised")
           ELSE LET l == ParseMotorStatus(s.misc_resp, s.err_resp, s.op_resp)
                IN loc' = l /\ Return(IF l.error = "none" THEN "None" ELSE "raised")
  /\ UNCHANGED <<host, tic>>

\* The answers to the status reads: the misc flags, the two bytes of the
\* error status, low byte first, and the operation state.
MiscAnswers == {<<0>>, <<1>>, <<5>>, <<10>>, <<31>>, <<32>>, <<129>>}
ErrAnswers == {<<0, 0>>, <<1, 0>>, <<132, 0>>, <<255, 0>>, <<0, 1>>, <<255, 1>>, <<6, 2>>}
OpAnswers == {<<0>>, <<2>>, <<3>>, <<10>>, <<12>>, <<16>>}

CodecInit == StepperInit

CodecNext ==
  \/ \E d \in DeviceNumbers, o \in QuickOps : SerialSendCall(d, o, None, <<>>)
  \/ \E d \in DeviceNumbers, o \in Write7Ops, p \in Write7Payloads :
       SerialSendCall(d, o, p, <<>>)
  \/ \E d \in DeviceNumbers, o \in Write32Ops, p \in Write32Payloads :
       SerialSendCall(d, o, p, <<>>)
  \/ \E d \in DeviceNumbers, o \in ReadOps, v \in Variables, a \in Answers :
       Len(a) <= v[2] /\ SerialSendCall(d, o, v, a)
  \/ \E o \in QuickOps, c \in BOOLEAN : I2CSendCall(o, None, <<>>, c)
  \/ \E o \in Write7Ops, p \in Write7Payloads, c \in BOOLEAN : I2CSendCall(o, p, <<>>, c)
  \/ \E o \in Write32Ops, p \in Write32Payloads, c \in BOOLEAN : I2CSendCall(o, p, <<>>, c)
  \/ \E o \in ReadOps, v \in Variables, a \in Answers, c \in BOOLEAN :
       Len(a) = v[2] /\ I2CSendCall(o, v, a, c)
  \/ \E d \in DeviceNumbers, a \in Answers :
       Len(a) <= variable_dict("curr_position")[2] /\ PositionCall("SERIAL", d, a)
  \/ \E a \in Answers :
       Len(a) = variable_dict("curr_position")[2] /\ PositionCall("I2C", None, a)
  \/ \E d \in DeviceNumbers, m \in MiscAnswers \cup {<<>>}, e \in ErrAnswers, o \in OpAnswers :
       StatusCall("SERIAL", d, StatusAnswers(m, e, o))
  \/ \E m \in MiscAnswers, e \in ErrAnswers, o \in OpAnswers :
       StatusCall("I2C", None, StatusAnswers(m, e, o))
  \/ CallReturns

CodecSpec == CodecInit /\ [][CodecNext]_vars

\* C22: a 7-bit write whose payload is above 127 fails with a value error on
\* either transport, and nothing is written.
C22_Write7RejectsAbove127 ==
  (pc = "done" /\ call.op \in {"TicSerial.send", "TicI2C.send"}
     /\ call.arg.operation[2] = "7" /\ call.arg.data > 127) =>
    (ret = "raised" /\ loc.error = "ValueError" /\ wire = <<>>)

\* Byte i of the little-endian 32-bit image of a wide integer.
Byte(v, i) ==
  CASE i = 0 -> v.lo % 256
    [] i = 1 -> v.lo \div 256
    [] i = 2 -> v.hi % 256
    [] i = 3 -> (v.hi \div 256) % 256

\* The length of the header of a serial frame.
HeaderLen(device_number) == IF device_number = None THEN 1 ELSE 3

\* A send of the serial transport has ended, with the given protocol.
SerialSendDone(protocol) ==
  pc = "done" /\ call.op = "TicSerial.send" /\ call.arg.operation[2] = protocol

\* C23: a serial 32-bit write puts five bytes behind the header: a stuffing
\* byte whose bit i is bit 7 of byte i of the value (bits 4..7 clear), then
\* the four bytes of the value, least significant first, each without its
\* bit 7.  The value is any unsigned 32-bit number or the two's complement
\* image of a negative one.
C23_SerialWrite32Stuffed ==
  SerialSendDone("32") =>
    /\ ret = "None"
    /\ Len(wire) = 1
    /\ LET v == call.arg.data
           h == HeaderLen(call.arg.device_number)
       IN SubSeq(wire[1], h + 1, Len(wire[1])) =
            << (Byte(v, 0) \div 128) + 2 * (Byte(v, 1) \div 128)
                 + 4 * (Byte(v, 2) \div 128) + 8 * (Byte(v, 3) \div 128),
               Byte(v, 0) % 128, Byte(v, 1) % 128, Byte(v, 2) % 128, Byte(v, 3) % 128 >>

\* -100 = 0xFFFFFF9C has been written in compact framing.
C23_Witness ==
  /\ SerialSendDone("32")
  /\ call.arg.data = Wide(0 - 1, 65436)
  /\ wire = << <<\hE0, 15, 28, 127, 127, 127>> >>

\* C24: an I2C 32-bit write hands over the command offset and the four bytes
\* (v >> 8i) & 0xFF of the value, least significant first, with no stuffing.
C24_I2CWrite32LittleEndian ==
  (pc = "done" /\ call.op = "TicI2C.send" /\ call.arg.operation[2] = "32") =>
    /\ ret = "None"
    /\ LET v == call.arg.data
       IN wire = << <<call.arg.operation[1],
                      Byte(v, 0), Byte(v, 1), Byte(v, 2), Byte(v, 3)>> >>

\* 0x7FFFFFFF has been written as offset, 0xFF, 0xFF, 0xFF, 0x7F.
C24_Witness ==
  /\ pc = "done" /\ call.op = "TicI2C.send" /\ call.arg.operation[2] = "32"
  /\ call.arg.data = Wide(32767, 65535)
  /\ wire = << <<\hE0, \hFF, \hFF, \hFF, \h7F>> >>

\* C25: a frame written by the serial transport starts with the one byte
\* [offset] when no device number is configured, and with the three bytes
\* [0xAA, device number, offset & 0x7F] when one is; the data bytes follow
\* the header as they are.
C25_SerialFraming ==
  (pc = "done" /\ call.op = "TicSerial.send" /\ wire # <<>>) =>
    LET offset == call.arg.operation[1]
        payload == SerialData(call.arg.operation[2], call.arg.data)
    IN /\ Len(wire) = 1
       /\ call.arg.device_number = None => wire[1] = <<offset>> \o payload
       /\ call.arg.device_number # None =>
            wire[1] = <<\hAA, call.arg.device_number[1], offset % 128>> \o payload

\* A 7-bit write has gone out behind an addressed header.
C25_Witness ==
  /\ SerialSendDone("7")
  /\ call.arg.device_number = <<TestDeviceNumber>>
  /\ wire = << <<\hAA, TestDeviceNumber, \h17, 3>> >>

\* C26: a serial block read of a variable with offset o and length N writes
\* the header followed by the one byte o and reads N bytes; with fewer than
\* N bytes returned the call fails and returns no data.
C26_SerialBlockReadFrame ==
  SerialSendDone("read") =>
    /\ wire = << makeSerialInput(call.arg.device_number, call.arg.operation[1],
                                 <<call.arg.data[1]>>) >>
    /\ rd
    /\ ret = "None" => Len(loc.result) = call.arg.data[2]
    /\ ret = "raised" => loc.error = "RuntimeError" /\ loc.result = <<>>

\* C27: position() returns u = b0 + 2^8 b1 + 2^16 b2 + 2^24 b3 of the four
\* reply bytes when u is below 2^31 and u - 2^32 otherwise (u is below 2^31
\* exactly when b3 is below 128), a value from -2^31 to 2^31 - 1.
C27_PositionSigned32 ==
  (pc = "done" /\ call.op = "position" /\ ret = "None") =>
    LET b == loc.b
    IN /\ Len(b) = 4
       /\ loc.location = b[1] + (2 ^ 8) * b[2] + (2 ^ 16) * b[3]
                           + (2 ^ 24) * (IF b[4] < 128 THEN b[4] ELSE b[4] - 256)
       /\ loc.location >= 0 - 2147483647 - 1
       /\ loc.location <= 2147483647

\* The reply 00 00 00 80 has been decoded as -2147483648.
C27_Witness ==
  /\ pc = "done" /\ call.op = "position" /\ ret = "None"
  /\ loc.b = <<0, 0, 0, \h80>>
  /\ loc.location = 0 - 2147483647 - 1

\* ------------------------------------------------------------ speeds and microsteps
\* The speed fields of a StepperBase and the microstep setting, as functions
\* of the object and the argument.  A speed is a fraction in lowest terms:
\* the getters round to three decimals, far above the rounding of a float.
RECURSIVE Gcd(_, _)
Gcd(a, b) == IF b = 0 THEN a ELSE Gcd(b, a % b)

Lowest(q) == LET g == Gcd(Abs(q.num), q.den) IN Frac(q.num \div g, q.den \div g)
FracInt(n) == Frac(n, 1)
FracMul(p, q) == Lowest(Frac(p.num * q.num, p.den * q.den))

\* p / q for q > 0
FracDiv(p, q) == Lowest(Frac(p.num * q.den, p.den * q.num))

\* Python's round(x, 3)
PyRound3(q) == Lowest(Frac(PyRound(FracMul(q, FracInt(1000))), 1000))

\* int(x) of a float x >= 0
Trunc(q) == q.num \div q.den

\* The fields of a StepperBase that speeds depend on; steps_per_rev and
\* dist_per_rev are the defaults of TicStepper.
Stepper(microsteps_per_full_step, steps_per_second) ==
  [microsteps_per_full_step |-> microsteps_per_full_step,
   steps_per_second |-> steps_per_second]

\* StepperBase._micros_per_dist of an object
micros_per_dist_of(self) ==
  FracMul(Frac(STEPS_PER_REV, DIST_PER_REV), FracInt(self.microsteps_per_full_step))

\* StepperBase._convDistToSteps and _convStepsToDist of an object
convDistToStepsOf(self, dist) == FracMul(dist, micros_per_dist_of(self))
convStepsToDistOf(self, steps) == FracDiv(steps, micros_per_dist_of(self))

\* The getters microsteps, dist_per_min and rpm
microsteps(self) == Frac(1, self.microsteps_per_full_step)
dist_per_min(self) ==
  PyRound3(FracMul(convStepsToDistOf(self, self.steps_per_second), FracInt(60)))
rpm(self) == PyRound3(FracDiv(dist_per_min(self), FracInt(DIST_PER_REV)))

\* What a setter comes to: the object, the commands sent, and whether
\* warnings.warn was called.
Effect(self, sent, warned) == [self |-> self, sent |-> sent, warned |-> warned]

\* TicStepper._setSpeed: sMaxSpeed with speed * 10000, which the transport
\* takes through int().
setSpeed(speed) == <<Cmd("sMaxSpeed", Trunc(FracMul(speed, FracInt(SPEED_SCALE))))>>

\* The setter dist_per_min
set_dist_per_min(self, speed) ==
  IF speed.num > 0
  THEN LET steps_per_second == convDistToStepsOf(self, FracDiv(speed, FracInt(60)))
       IN Effect([self EXCEPT !.steps_per_second = steps_per_second],
                 setSpeed(steps_per_second), FALSE)
  ELSE Effect(self, <<>>, TRUE)

\* The setter rpm
set_rpm(self, revs_per_min) ==
  IF revs_per_min.num > 0
  THEN set_dist_per_min(self, FracMul(revs_per_min, FracInt(DIST_PER_REV)))
  ELSE Effect(self, <<>>, TRUE)

\* StepperBase._checkMicrostep
checkMicrostep(microstep) == microstep.den = 1 /\ microstep.num \in {1, 2, 4, 8, 16}

\* TicStepper._setMicrostep
setMicrostep(self, microstep) ==
  LET data == (IF microstep = 2 THEN 1 ELSE 0) + (IF microstep = 4 THEN 1 ELSE 0) * 2
                + (IF microstep = 8 THEN 1 ELSE 0) * 3
  IN Effect([self EXCEPT !.microsteps_per_full_step = microstep],
            <<Cmd("sStepMode", data)>>, FALSE)

\* The setter microsteps
set_microsteps(self, step_ratio) ==
  LET micros_per_full_step == FracDiv(FracInt(1), step_ratio)
  IN IF checkMicrostep(micros_per_full_step)
     THEN LET old_micros == FracDiv(FracInt(1), microsteps(self))
              new_to_old == FracDiv(micros_per_full_step, old_micros)
              a == set_rpm(self, FracMul(rpm(self), new_to_old))
              b == setMicrostep(a.self, micros_per_full_step.num)
          IN Effect(b.self, a.sent \o b.sent, a.warned)
     ELSE Effect(self, <<>>, TRUE)

\* StepperBase.__init__ with the speed rpm
NewStepper(revs_per_min) ==
  set_rpm(Stepper(MICROSTEPS_PER_FULL_STEP, None), revs_per_min).self

\* The arguments of a setter: the object, and the value.
SetterArgs(self, value) == [self |-> self, value |-> value]

\* The object a setter leaves.
SetterLocals(self) == [self |-> self]

\* stepper.microsteps = step_ratio as a call
MicrostepsCall(self, step_ratio) ==
  /\ Begin(Call("microsteps", SetterArgs(self, step_ratio), FALSE, FALSE))
  /\ LET e == set_microsteps(self, step_ratio)
     IN /\ wire' = e.sent
        /\ loc' = SetterLocals(e.self)
        /\ Return(IF e.warned THEN "warned" ELSE "None")
  /\ rd' = FALSE
  /\ UNCHANGED <<host, tic>>

\* stepper.rpm = revs_per_min as a call
RpmCall(self, revs_per_min) ==
  /\ Begin(Call("rpm", SetterArgs(self, revs_per_min), FALSE, FALSE))
  /\ LET e == set_rpm(self, revs_per_min)
     IN /\ wire' = e.sent
        /\ loc' = SetterLocals(e.self)
        /\ Return(IF e.warned THEN "warned" ELSE "None")
  /\ rd' = FALSE
  /\ UNCHANGED <<host, tic>>

\* The conversions between steps and distance are float arithmetic.  A float
\* is a sign, a mantissa of Mantissa binary digits (most significant first,
\* the first one 1) and an exponent: sign * mantissa * 2^exp.  Zero has no
\* digits.
Mantissa == 53
Float(sign, bits, exp) == [sign |-> sign, bits |-> bits, exp |-> exp]
FloatZero == Float(0, <<>>, 0)

\* the number of binary digits of n >= 0: the least k with n < 2^k
BitLength(n) == CHOOSE k \in 0..30 : n < 2 ^ k /\ (k = 0 \/ n >= 2 ^ (k - 1))

\* the k binary digits of n < 2^k, most significant first
Digits(n, k) == [i \in 1..k |-> (n \div (2 ^ (k - i))) % 2]

\* the binary digits of n >= 0, most significant first, none for 0
BitsOf(n) == Digits(n, BitLength(n))

RECURSIVE ValueOf(_)
\* the number that the digits b stand for
ValueOf(b) ==
  IF b = <<>> THEN 0
  ELSE IF Len(b) = 1 THEN b[1]
  ELSE LET h == Len(b) \div 2
       IN ValueOf(SubSeq(b, 1, h)) * (2 ^ (Len(b) - h)) + ValueOf(SubSeq(b, h + 1, Len(b)))

\* the digits of b + 1
AddOne(b) ==
  IF \A i \in DOMAIN b : b[i] = 1
  THEN <<1>> \o [i \in DOMAIN b |-> 0]
  ELSE LET p == CHOOSE i \in DOMAIN b : b[i] = 0 /\ \A k \in (i + 1)..Len(b) : b[k] = 1
       IN [i \in DOMAIN b |-> IF i < p THEN b[i] ELSE IF i = p THEN 1 ELSE 0]

\* The float nearest to sign * (bits + rest) * 2^exp, where rest in [0, 1)
\* is not zero iff sticky; a tie goes to the even mantissa.
RoundToFloat(sign, bits, exp, sticky) ==
  LET L == Len(bits)
  IN IF L <= Mantissa
     THEN Float(sign, bits \o [i \in 1..(Mantissa - L) |-> 0], exp - (Mantissa - L))
     ELSE LET keep  == SubSeq(bits, 1, Mantissa)
              below == sticky \/ \E i \in (Mantissa + 2)..L : bits[i] = 1
              up    == bits[Mantissa + 1] = 1 /\ (below \/ keep[Mantissa] = 1)
              m     == IF up THEN AddOne(keep) ELSE keep
          IN IF Len(m) > Mantissa
             THEN Float(sign, SubSeq(m, 1, Mantissa), exp + (L - Mantissa) + 1)
             ELSE Float(sign, m, exp + (L - Mantissa))

\* float(n) of an integer n
FloatOfInt(n) ==
  IF n = 0 THEN FloatZero
  ELSE RoundToFloat(IF n < 0 THEN 0 - 1 ELSE 1, BitsOf(Abs(n)), 0, FALSE)

RECURSIVE ScaleUp(_, _)
\* the least t >= 0 with a * 2^t >= b, for a >= 1
ScaleUp(a, b) == IF a >= b THEN 0 ELSE 1 + ScaleUp(2 * a, b)

RECURSIVE Pow2Mod(_, _)
\* 2^j modulo b
Pow2Mod(j, b) ==
  IF j = 0 THEN 1 % b
  ELSE LET h == Pow2Mod(j \div 2, b)
       IN (((h * h) % b) * (IF j % 2 = 1 THEN 2 ELSE 1)) % b

\* the first k binary digits of r / b behind the point, for r < b
FracBits(r, b, k) == [j \in 1..k |-> (2 * ((r * Pow2Mod(j - 1, b)) % b)) \div b]

\* what is left of r after those k digits
FracRem(r, b, k) == (r * Pow2Mod(k, b)) % b

\* n / m in floats, for an integer n and a float m that is a whole number > 0
FloatDiv(n, m) ==
  IF n = 0 THEN FloatZero
  ELSE LET t == ScaleUp(Abs(n), m)
           a == Abs(n) * (2 ^ t)
           k == Mantissa + 1
       IN RoundToFloat(IF n < 0 THEN 0 - 1 ELSE 1,
                       BitsOf(a \div m) \o FracBits(a % m, m, k),
                       0 - t - k, FracRem(a % m, m, k) # 0)

\* The digits of b * m for a mantissa b, taken Chunk digits at a time from
\* the least significant end.
TimesBits(b, m) ==
  LET Chunk == 18
      L  == Len(b)
      t3 == ValueOf(SubSeq(b, L - Chunk + 1, L)) * m
      t2 == ValueOf(SubSeq(b, L - 2 * Chunk + 1, L - Chunk)) * m + t3 \div (2 ^ Chunk)
      t1 == ValueOf(SubSeq(b, 1, L - 2 * Chunk)) * m + t2 \div (2 ^ Chunk)
  IN BitsOf(t1) \o Digits(t2 % (2 ^ Chunk), Chunk) \o Digits(t3 % (2 ^ Chunk), Chunk)

\* x * m in floats, for a float x and a float m that is a whole number > 0
FloatMul(x, m) ==
  IF x.sign = 0 THEN FloatZero
  ELSE RoundToFloat(x.sign, TimesBits(x.bits, m), x.exp, FALSE)

\* StepperBase._micros_per_dist as the float it is: a whole number, with the
\* steps and the distance per revolution that TicStepper is built with.
float_micros_per_dist(self) == micros_per_dist_of(self).num

\* StepperBase._convStepsToDist of a number of steps
float_convStepsToDist(self, steps) == FloatDiv(steps, float_micros_per_dist(self))

\* StepperBase._convDistToSteps of a distance
float_convDistToSteps(self, dist) == FloatMul(dist, float_micros_per_dist(self))

\* The object and the argument of a conversion, and the float it returns.
ConvArgs(self, value) == [self |-> self, value |-> value]
ConvLocals(result) == [result |-> result]

\* stepper._float_convStepsToDist(steps) as a call
ConvStepsToDistCall(self, steps) ==
  /\ Begin(Call("_convStepsToDist", ConvArgs(self, steps), FALSE, FALSE))
  /\ loc' = ConvLocals(float_convStepsToDist(self, steps))
  /\ wire' = <<>> /\ rd' = FALSE
  /\ Return("None")
  /\ UNCHANGED <<host, tic>>

\* stepper._float_convDistToSteps(dist) as a call
ConvDistToStepsCall(self, dist) ==
  /\ Begin(Call("_convDistToSteps", ConvArgs(self, dist), FALSE, FALSE))
  /\ loc' = ConvLocals(float_convDistToSteps(self, dist))
  /\ wire' = <<>> /\ rd' = FALSE
  /\ Return("None")
  /\ UNCHANGED <<host, tic>>

\* The constructors.  An object is the record of the attributes it has; a
\* constructor is the list of its sends, each with the object as it is when
\* the send is made, and the object it leaves when every send has gone through.
SetAttr(self, name, value) == Merge(self, [n \in {name} |-> value])
Step(cmd, self) == [cmd |-> cmd, self |-> self]
Steps(cmds, self) == [k \in 1..Len(cmds) |-> Step(cmds[k], self)]
Built(steps, self) == [steps |-> steps, self |-> self]

\* StepperBase.__init__ under TicStepper.__init__, which sends rst before it:
\* the speed is sent before _steps_per_second is stored, and the flag
\* _enable is stored before the two commands of the enable setter are sent.
TicStepperInit(input_rpm) ==
  LET s0 == [enable |-> None, steps_per_second |-> None, target_steps |-> 0,
             microsteps_per_full_step |-> MICROSTEPS_PER_FULL_STEP]
      a  == set_rpm(s0, input_rpm)
      s1 == [a.self EXCEPT !.enable = FALSE]
  IN Built(<<Step(Quick("rst"), <<>>)>> \o Steps(a.sent, s0) \o Steps(EnableCmds(FALSE), s1),
           s1)

\* The block after the try of TicStage.__init__
StageAttrs(self) ==
  Merge(self, [fwd_lim_sw_position_tic |-> NaN, rev_lim_sw_position_tic |-> NaN,
               allowed_motion_range |-> ZeroRange, index_positions |-> <<>>,
               max_speed_steps_per_second |-> DEF_MAX_SPD_STEPS_PER_SEC])

\* The try block of TicStage.__init__ on the object that TicStepper.__init__
\* has left, with the board t: the two setting reads, the microsteps
\* setter, and disable(), which stores its two attributes and the flag
\* before it sends and keeps an exception of the transport to itself.
TicStageTry(self, micro_step_factor, t) ==
  LET s1 == SetAttr(self, "fwd_sw_present", checkLimitSwitch(SettingReply(t, "fwd")))
      s2 == SetAttr(s1, "rev_sw_present", checkLimitSwitch(SettingReply(t, "rev")))
      m  == set_microsteps(s2, Frac(1, micro_step_factor))
      speed == SelectSeq(m.sent, LAMBDA c : c.cmd = "sMaxSpeed")
      mode  == SelectSeq(m.sent, LAMBDA c : c.cmd = "sStepMode")
      s3 == SetAttr(SetAttr(m.self, "micro_step_factor", micro_step_factor),
                    "motion_tol_steps", MOTION_TOL_STEPS)
      s4 == Merge(s3, [is_motion_range_known |-> FALSE, allowed_motion_range |-> ZeroRange])
  IN Built(<<Step(Cmd("gSetting", "limit_switch_fwd"), self),
             Step(Cmd("gSetting", "limit_switch_rev"), s1)>>
             \o Steps(speed, s2) \o Steps(mode, m.self),
           s4)

\* The commands of the steps 1..k
StepCmds(steps, k) == [i \in 1..k |-> steps[i].cmd]

\* The arguments of a constructor that the model varies.
BuildArgs(input_rpm, micro_step_factor) ==
  [input_rpm |-> input_rpm, micro_step_factor |-> micro_step_factor]

\* TicStepper(...) as a call; the send k fails, or none does (k = 0).
TicStepperNew(input_rpm) ==
  /\ Begin(Call("TicStepper.__init__", BuildArgs(input_rpm, 1), FALSE, FALSE))
  /\ LET b == TicStepperInit(input_rpm)
     IN \E k \in 0..Len(b.steps) :
          IF k = 0
          THEN /\ wire' = StepCmds(b.steps, Len(b.steps))
               /\ loc' = SetterLocals(b.self) /\ Return("None")
          ELSE /\ wire' = StepCmds(b.steps, k)
               /\ loc' = SetterLocals(None) /\ Return("raised")
  /\ rd' = FALSE
  /\ UNCHANGED <<host, tic>>

\* TicStage(...) as a call; the send k fails, or none does (k = 0).  An
\* exception in the try block ends the constructor with the object as it is.
TicStageNew(input_rpm, micro_step_factor) ==
  /\ Begin(Call("TicStage.__init__", BuildArgs(input_rpm, micro_step_factor), FALSE, FALSE))
  /\ LET b == TicStepperInit(input_rpm)
         t == TicStageTry(b.self, micro_step_factor, tic)
         d == EnableCmds(FALSE)
         n == Len(b.steps)
         all == StepCmds(b.steps, n) \o StepCmds(t.steps, Len(t.steps))
     IN \/ \E k \in 1..n :
             /\ wire' = StepCmds(b.steps, k) /\ rd' = FALSE
             /\ loc' = SetterLocals(None) /\ Return("raised")
        \/ \E k \in 1..Len(t.steps) :
             /\ wire' = StepCmds(b.steps, n) \o StepCmds(t.steps, k) /\ rd' = TRUE
             /\ loc' = SetterLocals(t.steps[k].self) /\ Return("None")
        \/ \E f \in 0..Len(d) :
             /\ wire' = all \o Handed(d, f) /\ rd' = TRUE
             /\ loc' = SetterLocals(StageAttrs(t.self)) /\ Return("None")
  /\ UNCHANGED <<host, tic>>

\* A sixth specification: the setters on the steppers that a construction
\* and one setting of the microsteps lead to.  Speeds of 1, 1/2, 3/2000 and
\* 1/4000 revolutions per minute, and no speed at all.
MicrostepFactors == {1, 2, 3, 4, 8, 16}
Speeds == {FracInt(1), Frac(1, 2), Frac(3, 2000), Frac(1, 4000)}
Steppers ==
  {set_microsteps(NewStepper(r), Frac(1, f)).self : r \in Speeds, f \in MicrostepFactors}

\* The step counts that are converted, and the distances they come to.
MaxSteps == 30
StepCounts == (0 - MaxSteps)..MaxSteps

GearInit == StepperInit

GearNext ==
  \/ \E self \in Steppers, f \in MicrostepFactors : MicrostepsCall(self, Frac(1, f))
  \/ \E self \in Steppers, r \in Speeds \cup {FracInt(0)} : RpmCall(self, r)
  \/ \E self \in Steppers, n \in StepCounts : ConvStepsToDistCall(self, n)
  \/ \E self \in Steppers, n \in StepCounts :
       ConvDistToStepsCall(self, float_convStepsToDist(self, n))
  \/ \E r \in Speeds : TicStepperNew(r)
  \/ \E r \in Speeds, f \in MicrostepFactors : TicStageNew(r, f)
  \/ CallReturns

GearSpec == GearInit /\ [][GearNext]_vars

\* The microstep factors of the Tic, and the step-mode code of each.
TicFactors == {1, 2, 4, 8}
StepModeCode(f) == CASE f = 1 -> 0 [] f = 2 -> 1 [] f = 4 -> 2 [] f = 8 -> 3

\* The commands of a kind among those sent.
SentOf(name) == SelectSeq(wire, LAMBDA c : c.cmd = name)

\* C28: setting the microstep factor f takes exactly the factors 1, 2, 4, 8
\* and sends the step mode 0, 1, 2, 3; any other f fails, sends nothing and
\* leaves the stored factor and the stored speed as they were.  So the
\* stored factor is the one that the last step mode sent selects.
C28_MicrostepFactorsOfTheTic ==
  (pc = "done" /\ call.op = "microsteps") =>
    LET f == FracDiv(FracInt(1), call.arg.value)
    IN /\ (f.den = 1 /\ f.num \in TicFactors) =>
            /\ SentOf("sStepMode") = <<Cmd("sStepMode", StepModeCode(f.num))>>
            /\ loc.self.microsteps_per_full_step = f.num
       /\ ~(f.den = 1 /\ f.num \in TicFactors) =>
            /\ ret = "warned"
            /\ wire = <<>>
            /\ loc.self = call.arg.self
       /\ \A i \in DOMAIN wire :
            wire[i].cmd = "sStepMode" =>
              loc.self.microsteps_per_full_step \in TicFactors
                /\ wire[i].data = StepModeCode(loc.self.microsteps_per_full_step)

\* C29: a change of the microstep factor from f to g, both factors of the
\* Tic, multiplies the stored step rate by g / f, and the speed reported
\* after the change, in distance per minute and in rpm, is the speed
\* reported before it.
C29_SpeedKeptAcrossMicrosteps ==
  (pc = "done" /\ call.op = "microsteps"
     /\ call.arg.self.microsteps_per_full_step \in TicFactors
     /\ loc.self.microsteps_per_full_step \in TicFactors) =>
    /\ loc.self.steps_per_second =
         FracMul(call.arg.self.steps_per_second,
                 Frac(loc.self.microsteps_per_full_step,
                      call.arg.self.microsteps_per_full_step))
    /\ dist_per_min(loc.self) = dist_per_min(call.arg.self)
    /\ rpm(loc.self) = rpm(call.arg.self)

\* C30: with the factor 1, 2, 4 or 8 and the steps and the distance per
\* revolution fixed, a whole number N of steps converted to a distance and
\* that distance converted back to steps is N again.
C30_StepsDistanceRoundTrip ==
  (pc = "done" /\ call.op = "_convDistToSteps"
     /\ call.arg.self.microsteps_per_full_step \in TicFactors) =>
    \A n \in StepCounts :
      call.arg.value = float_convStepsToDist(call.arg.self, n) => loc.result = FloatOfInt(n)

\* ------------------------------------------------------------ properties of homing, status and construction
\* The board has the limit switch of a direction configured.
SwitchConfigured(t, direc) == IF direc = "fwd" THEN t.cfg_fwd ELSE t.cfg_rev

\* C31: home(direction) writes goHome, with 1 for forward and 0 for reverse,
\* only if the board reports the limit switch of that direction as
\* configured; if it reports it as not configured, home fails and no goHome
\* is written.
C31_HomeNeedsItsSwitch ==
  (pc = "done" /\ call.op = "home" /\ ret # "raised") =>
    IF SwitchConfigured(tic, call.arg)
    THEN wire = <<Cmd("goHome", IF call.arg = "fwd" THEN 1 ELSE 0)>>
    ELSE ret = "warned" /\ SentOf("goHome") = <<>>

\* The elements of a list.
Elements(s) == {s[k] : k \in DOMAIN s}

\* The register that a list of bytes holds, the low byte first.
Register(b) == IF Len(b) = 1 THEN b[1] ELSE b[1] + b[2] * (2 ^ 8)

\* C32: the error status and the misc flags are decoded as bit fields, each
\* by itself: the flag i that a table defines (0..8 for the errors, 0..4 for
\* the misc flags) is in the decoded list if and only if bit i of the
\* register that was read is set; the operation state is decoded through
\* the table of the even codes 0..10.
C32_StatusBitFields ==
  (pc = "done" /\ call.op = "getAndParsemotor_status" /\ ret = "None") =>
    /\ \A i \in DOMAIN error_status_dict :
         error_status_dict[i] \in Elements(loc.ErrorStatus)
           <=> BitAnd(Register(call.arg.answers.err), 2 ^ i) # 0
    /\ \A i \in DOMAIN misc_bit_dict :
         misc_bit_dict[i] \in Elements(loc.PositionStatus)
           <=> BitAnd(Register(call.arg.answers.misc), 2 ^ i) # 0
    /\ \A c \in DOMAIN op_state_dict :
         op_state_dict[c] \in Elements(loc.OperationStatus)
           <=> call.arg.answers.op[1] = c

\* C33: stop() sets _target_steps to the position it has just measured: with
\* the motor where it was, isMoving() (position # _target_steps) is false
\* right after stop() has returned, whatever the target was before.
C33_StopEndsMoving ==
  (pc = "done" /\ call.op = "StepperBase.stop" /\ ret # "raised") =>
    target_steps = tic.pos

\* C34: the first command a constructor writes is the reset, before any
\* command of speed, enable or step mode; when a constructor finishes the
\* object is disabled with the target 0, and a TicStage has the range
\* unknown and the allowed range [0, 0].
C34_ConstructionResetsFirst ==
  (pc = "done" /\ call.op \in {"TicStepper.__init__", "TicStage.__init__"}) =>
    /\ wire # <<>> /\ wire[1] = Quick("rst") /\ command_dict("rst")[1] = \hB0
    /\ ret # "raised" =>
         /\ loc.self.enable = FALSE /\ loc.self.target_steps = 0
         /\ call.op = "TicStage.__init__" =>
              /\ {"is_motion_range_known", "allowed_motion_range"} \subseteq DOMAIN loc.self
              /\ loc.self.is_motion_range_known = FALSE
              /\ loc.self.allowed_motion_range = ZeroRange

\* ------------------------------------------------------------ the homing loop
\* An eighth specification, for the poll loop of moveToLimit: boards with
\* and without their switches, step budgets of one stride and of the whole
\* travel, time budgets from one poll to HomingPolls polls.  The motor moves
\* when it moves: nothing makes it.
HomingPolls == 3
HomingTimeouts == {1, HomingPolls}
HomingBudgets == {Stride, Travel}
HomingBoards ==
  {[pos |-> 0, target |-> 0, energized |-> FALSE, safe_start |-> TRUE, mode |-> "off",
    sw_rev |-> lay[1], sw_fwd |-> lay[2], cfg_fwd |-> cfg[1], cfg_rev |-> cfg[2]] :
     lay \in Layouts, cfg \in BOOLEAN \X BOOLEAN}

HomingInit ==
  /\ tic \in HomingBoards
  /\ enable = FALSE
  /\ target_steps = 0
  /\ is_motion_range_known = FALSE
  /\ allowed_motion_range = ZeroRange
  /\ fwd_lim_sw_position_tic = NaN
  /\ rev_lim_sw_position_tic = NaN
  /\ index_positions = <<>>
  /\ fwd_sw_present = checkLimitSwitch(SettingReply(tic, "fwd"))
  /\ rev_sw_present = checkLimitSwitch(SettingReply(tic, "rev"))
  /\ pc = "idle"
  /\ call = NoCall
  /\ ret = "None"
  /\ wire = <<>>
  /\ rd = FALSE
  /\ loc = NoLoc

HomingNext ==
  \/ \E state \in BOOLEAN : SetEnable(state)
  \/ \E l \in {"fwd", "rev"}, n \in HomingBudgets, t \in HomingTimeouts : moveToLimit(l, n, t)
  \/ MtlBegin
  \/ MtlPoll
  \/ CallReturns
  \/ DeviceStep

HomingSpec == HomingInit /\ [][HomingNext]_vars

\* The loop goes round as long as it has not ended, and it does so without
\* the help of a transport that fails.
FairHomingSpec == HomingSpec /\ WF_vars(MtlPoll /\ ~loc'.err)

\* The last poll of moveToLimit has read the limit active, or the motor as
\* far from where it started as the step budget, or the time budget is used up.
HomingOver ==
  \/ loc.limit_active
  \/ Abs(loc.current_position - loc.initial_position) >= Abs(loc.max_steps)
  \/ loc.elapsed_time >= loc.timeout_s

\* C35: the poll loop of moveToLimit is bounded.  Once it polls it comes to
\* an end, also with a motor that never moves and a limit that never
\* becomes active; and it polls no more once a poll has read the limit
\* active, or the distance from the start has reached max_steps, or the
\* elapsed time has reached the timeout.
C35_HomingLoopBounded ==
  /\ (pc = "mtl_poll") ~> (pc # "mtl_poll")
  /\ [][(pc = "mtl_poll" /\ HomingOver /\ pc' = "mtl_poll") => loc' = loc]_vars
  /\ [][(pc = "mtl_poll" /\ pc' = "mtl_poll") => loc'.elapsed_time <= loc.timeout_s]_vars

\* A moveToLimit that polled to the end of its time budget with a motor that
\* stood still and a limit that stayed inactive.
C35_Witness ==
  /\ pc = "done" /\ call.op = "moveToLimit" /\ ret = "True"
  /\ ~loc.limit_active /\ loc.timeout_s = HomingPolls
  /\ tic.pos = 0 /\ wire # <<>>

\* C36: moveToIndexedPosition returns True only if the key is in the table and
\* the move to the stored position was accepted (the position is valid in the
\* known range, or the range is unknown and the caller asserts open loop) and
\* was commanded to the controller.
C36_IndexedMoveSucceedsOnlyIfMoved ==
  (pc = "done" /\ call.op = "moveToIndexedPosition" /\ ret = "True") =>
    /\ call.arg \in DOMAIN index_positions
    /\ IF is_motion_range_known
       THEN isTargetValid(index_positions[call.arg])
       ELSE call.open
    /\ \E i \in DOMAIN wire : wire[i] = Cmd("sTargetPosition", index_positions[call.arg])

\* ------------------------------------------------------------ the discovery
\* discoverMotionRange on boards with either, both or none of the switches
\* configured, and on a board whose switches are less than two soft buffers
\* apart.
ShortBoard ==
  [pos |-> 0, target |-> 0, energized |-> FALSE, safe_start |-> TRUE, mode |-> "off",
   sw_rev |-> 0 - RevOffset, sw_fwd |-> 2 * SOFTLIMIT_BUFFER_STEPS - ShortBy - RevOffset,
   cfg_fwd |-> TRUE, cfg_rev |-> TRUE]
DiscoverBoards == HomingBoards \cup {ShortBoard}

DiscoverInit ==
  /\ tic \in DiscoverBoards
  /\ enable = FALSE
  /\ target_steps = 0
  /\ is_motion_range_known = FALSE
  /\ allowed_motion_range = ZeroRange
  /\ fwd_lim_sw_position_tic = NaN
  /\ rev_lim_sw_position_tic = NaN
  /\ index_positions = <<>>
  /\ fwd_sw_present = checkLimitSwitch(SettingReply(tic, "fwd"))
  /\ rev_sw_present = checkLimitSwitch(SettingReply(tic, "rev"))
  /\ pc = "idle"
  /\ call = NoCall
  /\ ret = "None"
  /\ wire = <<>>
  /\ rd = FALSE
  /\ loc = NoLoc

DiscoverNext ==
  \/ \E state \in BOOLEAN : SetEnable(state)
  \/ \E n \in HomingBudgets, t \in HomingTimeouts : discoverMotionRange(n, t)
  \/ MtlBegin
  \/ MtlPoll
  \/ DiscFwdPos
  \/ DiscRevPos
  \/ DiscHome
  \/ DiscFinish
  \/ CallReturns
  \/ DeviceStep
  \/ DeviceHomed

DiscoverSpec == DiscoverInit /\ [][DiscoverNext]_vars

\* C37: in discoverMotionRange goHome is written only on a board whose reverse
\* switch is configured and only after the reverse poll loop has read the
\* reverse limit active; and whenever the range is known the stored limits and
\* the allowed range are finite.
C37_HomeOnlyAfterReverseLimit ==
  /\ (call.op = "discoverMotionRange" /\ \E i \in DOMAIN wire : wire[i].cmd = "goHome") =>
       /\ \A i \in DOMAIN wire : wire[i].cmd = "goHome" => wire[i].data = 0
       /\ tic.cfg_rev
       /\ loc.limit = "rev" /\ loc.limit_active
  /\ is_motion_range_known =>
       /\ rev_lim_sw_position_tic.inf = 0 /\ fwd_lim_sw_position_tic.inf = 0
       /\ allowed_motion_range[1].inf = 0 /\ allowed_motion_range[2].inf = 0

\* C38: after the stage has been enabled the motor is enabled, the range is
\* unknown, and a stop has followed the two enable commands: the target is
\* the position measured and has been written to the board.
C38_EnableStopsTheMotor ==
  (pc = "done" /\ call.op = "enable" /\ call.open /\ ret = "None") =>
    /\ enable /\ ~is_motion_range_known
    /\ target_steps = tic.pos
    /\ wire = EnableCmds(TRUE) \o <<Cmd("sTargetPosition", tic.pos)>>

\* C39: whenever the range is known its lower end is not above its upper end.
C39_KnownRangeNotEmpty ==
  is_motion_range_known =>
    /\ allowed_motion_range[1].inf = 0 /\ allowed_motion_range[2].inf = 0
    /\ allowed_motion_range[1].v <= allowed_motion_range[2].v

\* ------------------------------------------------------------ the 32-bit round trip
\* A wide integer that is a signed 32-bit value, and its value.
Signed32(v) == v.hi >= 0 - 2 ^ 15 /\ v.hi < 2 ^ 15
ValueOf32(v) == v.hi * (2 ^ 16) + v.lo

\* The four bytes behind the stuffing byte of a serial 32-bit frame, each
\* with its bit 7 put back from the stuffing byte.
Unstuffed(command, h) ==
  [i \in 1..4 |-> command[h + 1 + i] + 128 * ((command[h + 1] \div (2 ^ (i - 1))) % 2)]

\* C40: for a signed 32-bit value v, the four data bytes of the I2C 32-bit
\* write of v decode, with the signed position decode, to v; and so do the
\* four bytes of the serial 32-bit frame once each has its bit 7 back from
\* the stuffing byte, which are the same four bytes.
C40_Write32RoundTrip ==
  /\ (pc = "done" /\ call.op = "TicI2C.send" /\ call.arg.operation[2] = "32"
        /\ Signed32(call.arg.data)) =>
       /\ ret = "None" /\ Len(wire) = 1 /\ Len(wire[1]) = 5
       /\ position_in_steps(SubSeq(wire[1], 2, 5)) = ValueOf32(call.arg.data)
  /\ (SerialSendDone("32") /\ Signed32(call.arg.data)) =>
       /\ ret = "None" /\ Len(wire) = 1
       /\ LET h == HeaderLen(call.arg.device_number)
              b == Unstuffed(wire[1], h)
          IN /\ Len(wire[1]) = h + 5
             /\ \A i \in 1..4 : b[i] = Byte(call.arg.data, i - 1)
             /\ position_in_steps(b) = ValueOf32(call.arg.data)

\* -2147483648 has been written over I2C as 00 00 00 80, which decodes to it.
C40_Witness ==
  /\ pc = "done" /\ call.op = "TicI2C.send" /\ call.arg.operation[2] = "32"
  /\ call.arg.data = Wide(0 - 32768, 0)
  /\ SubSeq(wire[1], 2, 5) = <<0, 0, 0, \h80>>
  /\ position_in_steps(SubSeq(wire[1], 2, 5)) = 0 - 2147483647 - 1

====
